---- MODULE Spec2Model ----
(***************************************************************************)
(* Model of the markdown -> ADF converter of the Jira client library       *)
(* (markdownToAdf and parseInlineContent), of its inverse extractor        *)
(* (extractTextFromAdf), of the pull-all command, of the jira create       *)
(* command with createIssue, and of sanitizeFilename.                      *)
(*                                                                         *)
(* A JavaScript string is a sequence of one-character strings.  A nullable *)
(* value is Null (the empty tuple) or <<v>>.  An ADF node is a record with *)
(* the fields the code gives it (a text node has a "marks" field only when *)
(* the code sets one).                                                     *)
(***************************************************************************)
EXTENDS Integers, Sequences, FiniteSets, TLC

VARIABLES
    pc,                 \* "loop"/"done" (markdownToAdf), "scan"/"returned" (parseInlineContent)
    markdown,           \* argument of markdownToAdf
    lines,              \* markdown.split('\n')
    idx,                \* position of the for..of loop in lines (1-based)
    content,            \* top-level blocks built so far
    inCodeBlock,
    codeBlockContent,
    codeBlockLang,
    currentBulletList,  \* Null or <<items>>
    ret,                \* Null or <<returned document>>
    text,               \* argument of parseInlineContent
    remaining,
    result,
    parsed,             \* Null or <<value returned by parseInlineContent>>
    adf,                \* argument of extractTextFromAdf
    pos,                \* position of the top-level map in adf.content (1-based)
    mapped,             \* the strings the top-level map has produced so far
    extracted,          \* Null (undefined) or <<string returned by extractTextFromAdf>>
    calls,              \* number of calls completed before the running one
    earlier,            \* what the completed calls returned, in order
    root,               \* the directory pull-all is run on
    options,            \* the flags of pull-all: dryRun, all
    scanned,            \* the RepoStatus objects, in scan order
    toPull,             \* positions in scanned of the statuses to pull
    notOnMain,          \* positions in scanned of the statuses to fetch main for
    skipped,            \* positions in scanned of the statuses that are no repo
    running,            \* per status: the git command in flight, or "none"
    git,                \* per status: the git commands started for it, in order
    results,            \* Null or <<what the pull phase resolved to>>
    fetchedResults,     \* Null or <<what the fetch phase resolved to>>
    tracker,            \* the ids of the issues that exist on the remote tracker
    runs,               \* number of jira create commands run before this one
    createOptions,      \* Null or <<the options of the running jira create command>>
    description,        \* Null (undefined) or <<where the description was read from>>
    assigneeAccountId,  \* Null (undefined) or <<accountId>>
    remote,             \* the remote calls the running command has made, in order
    response,           \* Null or <<what client.issues.createIssue resolved to>>
    issue,              \* Null or <<IssueInfo>>: what createIssue returned
    exitCode,           \* Null while the command runs, then <<code>>
    output,             \* what the running command has printed, in order
    title,              \* argument of sanitizeFilename
    filename,           \* Null or <<string returned by sanitizeFilename>>
    passes              \* number of times the result was sanitized again

docVars == <<markdown, lines, idx, content, inCodeBlock, codeBlockContent,
             codeBlockLang, currentBulletList, ret>>
inlineVars == <<text, remaining, result, parsed>>
adfVars == <<adf, pos, mapped, extracted>>
callVars == <<calls, earlier>>
pullVars == <<root, options, scanned, toPull, notOnMain, skipped, running, git,
              results, fetchedResults>>
jiraVars == <<tracker, runs, createOptions, description, assigneeAccountId,
              remote, response, issue, exitCode, output>>
fileVars == <<title, filename, passes>>
toolVars == <<jiraVars, fileVars>>
vars == <<pc, docVars, inlineVars, adfVars, callVars, pullVars, toolVars>>

\* what a step of markdownToAdf, and of parseInlineContent, leaves alone
notDocVars == <<inlineVars, adfVars, callVars, pullVars, toolVars>>
notInlineVars == <<docVars, adfVars, callVars, pullVars, toolVars>>

-----------------------------------------------------------------------------
(* Characters and string primitives                                        *)

Null == <<>>

NL == "\n"
CR == "\r"
SP == " "
\* the backquote character (a TLA+ string cannot hold it, so it is spelled out)
BT == "backquote"
STAR == "*"
HASH == "#"
DASH == "-"
LBR == "["
RBR == "]"
LPAR == "("
RPAR == ")"

\* Characters the regular-expression dot does not match (the model's
\* alphabet holds \n and \r of the four ECMAScript line terminators).
LineTerminators == {NL, CR}

\* Characters String.prototype.trim removes (those of the model's alphabet).
WhiteSpace == {SP, NL, CR}

\* s.slice(n)
Slice(s, n) == SubSeq(s, n + 1, Len(s))

\* s.startsWith(p)
StartsWith(s, p) == Len(s) >= Len(p) /\ SubSeq(s, 1, Len(p)) = p

RECURSIVE TrimStart(_)
TrimStart(s) ==
    IF s # <<>> /\ Head(s) \in WhiteSpace THEN TrimStart(Tail(s)) ELSE s

RECURSIVE TrimEnd(_)
TrimEnd(s) ==
    IF s # <<>> /\ s[Len(s)] \in WhiteSpace
    THEN TrimEnd(SubSeq(s, 1, Len(s) - 1)) ELSE s

\* s.trim()
Trim(s) == TrimEnd(TrimStart(s))

\* s.split('\n'): the pieces between the separators; '' gives ['']
RECURSIVE SplitFrom(_, _)
SplitFrom(s, cur) ==
    IF s = <<>> THEN <<cur>>
    ELSE IF Head(s) = NL THEN <<cur>> \o SplitFrom(Tail(s), <<>>)
    ELSE SplitFrom(Tail(s), Append(cur, Head(s)))

Split(s) == SplitFrom(s, <<>>)

\* arr.join('\n')
RECURSIVE Join(_)
Join(arr) ==
    IF arr = <<>> THEN <<>>
    ELSE IF Len(arr) = 1 THEN arr[1]
    ELSE arr[1] \o <<NL>> \o Join(Tail(arr))

\* Length of the longest run of characters outside stop that starts at
\* position from of s (a greedy negated character class).
RECURSIVE RunLen(_, _, _)
RunLen(s, from, stop) ==
    IF from > Len(s) \/ s[from] \in stop THEN 0
    ELSE 1 + RunLen(s, from + 1, stop)

-----------------------------------------------------------------------------
(* Regular expressions of markdownToAdf                                    *)

Fence == <<BT, BT, BT>>
DefaultLang == <<"t", "e", "x", "t">>

\* line.match(/^#{n} (.+)$/) for n = 1, 2, 3: Null or <<group 1>>
HeadingMatch(line, n) ==
    LET rest == Slice(line, n + 1)
    IN  IF /\ Len(line) >= n + 2
           /\ \A k \in 1..n : line[k] = HASH
           /\ line[n + 1] = SP
           /\ RunLen(rest, 1, LineTerminators) = Len(rest)
        THEN <<rest>> ELSE Null

\* line.match(/^[-*] (.+)$/): Null or <<group 1>>
BulletMatch(line) ==
    LET rest == Slice(line, 2)
    IN  IF /\ Len(line) >= 3
           /\ line[1] \in {DASH, STAR}
           /\ line[2] = SP
           /\ RunLen(rest, 1, LineTerminators) = Len(rest)
        THEN <<rest>> ELSE Null

-----------------------------------------------------------------------------
(* parseInlineContent                                                      *)

\* the inline code match with group 1 taken around the delimiters
CodeMatch_WithDelimiters(r) ==
    LET n == RunLen(r, 2, {BT})
    IN  IF Len(r) >= 1 /\ r[1] = BT /\ n >= 1 /\ Len(r) >= n + 2 /\ r[n + 2] = BT
        THEN <<n + 2, SubSeq(r, 1, n + 2)>> ELSE Null

\* remaining.match(/^`([^`]+)`/): Null or <<length of the match, group 1>>
CodeMatch(r) ==
    LET n == RunLen(r, 2, {BT})
    IN  IF Len(r) >= 1 /\ r[1] = BT /\ n >= 1 /\ Len(r) >= n + 2 /\ r[n + 2] = BT
        THEN <<n + 2, SubSeq(r, 2, n + 1)>> ELSE Null

\* remaining.match(/^\*\*([^*]+)\*\*/): Null or <<length of the match, group 1>>
BoldMatch(r) ==
    LET n == RunLen(r, 3, {STAR})
    IN  IF /\ Len(r) >= 2 /\ r[1] = STAR /\ r[2] = STAR
           /\ n >= 1
           /\ Len(r) >= n + 4 /\ r[n + 3] = STAR /\ r[n + 4] = STAR
        THEN <<n + 4, SubSeq(r, 3, n + 2)>> ELSE Null

\* the link match with a length one short: the closing ')' is left behind
LinkMatch_OneShort(r) ==
    LET n == RunLen(r, 2, {RBR})
        m == RunLen(r, n + 4, {RPAR})
    IN  IF /\ Len(r) >= 1 /\ r[1] = LBR
           /\ n >= 1
           /\ Len(r) >= n + 3 /\ r[n + 2] = RBR /\ r[n + 3] = LPAR
           /\ m >= 1
           /\ Len(r) >= n + m + 4 /\ r[n + m + 4] = RPAR
        THEN <<n + m + 3, SubSeq(r, 2, n + 1), SubSeq(r, n + 4, n + m + 3)>>
        ELSE Null

\* remaining.match(/^\[([^\]]+)\]\(([^)]+)\)/):
\* Null or <<length of the match, group 1, group 2>>
LinkMatch(r) ==
    LET n == RunLen(r, 2, {RBR})
        m == RunLen(r, n + 4, {RPAR})
    IN  IF /\ Len(r) >= 1 /\ r[1] = LBR
           /\ n >= 1
           /\ Len(r) >= n + 3 /\ r[n + 2] = RBR /\ r[n + 3] = LPAR
           /\ m >= 1
           /\ Len(r) >= n + m + 4 /\ r[n + m + 4] = RPAR
        THEN <<n + m + 4, SubSeq(r, 2, n + 1), SubSeq(r, n + 4, n + m + 3)>>
        ELSE Null

\* remaining.match(/^[^`*\[]+/): Null or <<length of the match>>
PlainMatch(r) ==
    LET n == RunLen(r, 1, {BT, STAR, LBR})
    IN  IF n >= 1 THEN <<n>> ELSE Null

\* One iteration of the while loop on a non-empty remaining: the rule that
\* applies, the node it pushes and the new value of remaining.
ScanStep(r) ==
    LET codeMatch == CodeMatch(r)
        boldMatch == BoldMatch(r)
        linkMatch == LinkMatch(r)
        plainMatch == PlainMatch(r)
    IN  IF codeMatch # Null THEN
            [rule |-> "code",
             node |-> [type |-> "text", text |-> codeMatch[2],
                       marks |-> <<[type |-> "code"]>>],
             rest |-> Slice(r, codeMatch[1])]
        ELSE IF boldMatch # Null THEN
            [rule |-> "bold",
             node |-> [type |-> "text", text |-> boldMatch[2],
                       marks |-> <<[type |-> "strong"]>>],
             rest |-> Slice(r, boldMatch[1])]
        ELSE IF linkMatch # Null THEN
            [rule |-> "link",
             node |-> [type |-> "text", text |-> linkMatch[2],
                       marks |-> <<[type |-> "link",
                                    attrs |-> [href |-> linkMatch[3]]]>>],
             rest |-> Slice(r, linkMatch[1])]
        ELSE IF plainMatch # Null THEN
            [rule |-> "plain",
             node |-> [type |-> "text", text |-> SubSeq(r, 1, plainMatch[1])],
             rest |-> Slice(r, plainMatch[1])]
        ELSE
            [rule |-> "single",
             node |-> [type |-> "text", text |-> <<r[1]>>],
             rest |-> Slice(r, 1)]

\* the return without the placeholder: return result
InlineResult_NoPlaceholder(res) == res

\* return result.length > 0 ? result : [{ type: 'text', text: ' ' }]
InlineResult(res) ==
    IF Len(res) > 0 THEN res ELSE <<[type |-> "text", text |-> <<SP>>]>>

\* The while loop run to its end from remaining = r with result = res.
RECURSIVE ScanAll(_, _)
ScanAll(r, res) ==
    IF Len(r) > 0
    THEN LET s == ScanStep(r) IN ScanAll(s.rest, Append(res, s.node))
    ELSE res

\* parseInlineContent(text) as one call
parseInlineContent(t) == InlineResult(ScanAll(t, <<>>))

\* The same function step by step, one action per branch of the loop body.
Inline(rule) ==
    /\ pc = "scan"
    /\ Len(remaining) > 0
    /\ LET s == ScanStep(remaining)
       IN  /\ s.rule = rule
           /\ result' = Append(result, s.node)
           /\ remaining' = s.rest
    /\ UNCHANGED <<pc, text, parsed, notInlineVars>>

InlineCode == Inline("code")
InlineBold == Inline("bold")
InlineLink == Inline("link")
InlinePlain == Inline("plain")
InlineSingle == Inline("single")

InlineReturn ==
    /\ pc = "scan"
    /\ ~(Len(remaining) > 0)
    /\ parsed' = <<InlineResult(result)>>
    /\ pc' = "returned"
    /\ UNCHANGED <<text, remaining, result, notInlineVars>>

-----------------------------------------------------------------------------
(* markdownToAdf                                                           *)

\* flushBulletList(): the values of content and currentBulletList after it
flushBulletList(c, b) ==
    IF b # Null /\ Len(b[1]) > 0
    THEN [content |-> Append(c, [type |-> "bulletList", content |-> b[1]]),
          currentBulletList |-> Null]
    ELSE [content |-> c, currentBulletList |-> b]

\* CodeBlockNode without the || 'text' default.
CodeBlockNode_NoDefault(lang, payload) ==
    [type |-> "codeBlock",
     attrs |-> [language |-> lang],
     content |-> <<[type |-> "text", text |-> Join(payload)]>>]

\* the code block pushed when a fence closes
CodeBlockNode(lang, payload) ==
    [type |-> "codeBlock",
     attrs |-> [language |-> IF lang # <<>> THEN lang ELSE DefaultLang],
     content |-> <<[type |-> "text", text |-> Join(payload)]>>]

\* the heading pushed for a header line
HeadingNode(level, t) ==
    [type |-> "heading",
     attrs |-> [level |-> level],
     content |-> <<[type |-> "text", text |-> t]>>]

\* the list item pushed for a bullet line
ListItemNode(t) ==
    [type |-> "listItem",
     content |-> <<[type |-> "paragraph", content |-> parseInlineContent(t)]>>]

\* the paragraph pushed for any other line
ParagraphNode(line) ==
    [type |-> "paragraph", content |-> parseInlineContent(line)]

\* the blank test without trim(): line === ''
IsBlank_NoTrim(line) == line = <<>>

\* line.trim() === ''
IsBlank(line) == Trim(line) = <<>>

\* the first of h1Match, h2Match, h3Match that is not null, as <<level, group 1>>
HeaderOf(line) ==
    IF HeadingMatch(line, 1) # Null THEN <<1, HeadingMatch(line, 1)[1]>>
    ELSE IF HeadingMatch(line, 2) # Null THEN <<2, HeadingMatch(line, 2)[1]>>
    ELSE IF HeadingMatch(line, 3) # Null THEN <<3, HeadingMatch(line, 3)[1]>>
    ELSE Null

InLoop == pc = "loop" /\ idx <= Len(lines)

\* if (line.startsWith('```')) with inCodeBlock false: start code block
FenceOpen ==
    /\ InLoop
    /\ StartsWith(lines[idx], Fence)
    /\ ~inCodeBlock
    /\ LET f == flushBulletList(content, currentBulletList)
       IN  /\ content' = f.content
           /\ currentBulletList' = f.currentBulletList
    /\ inCodeBlock' = TRUE
    /\ codeBlockLang' = Trim(Slice(lines[idx], 3))
    /\ idx' = idx + 1
    /\ UNCHANGED <<pc, markdown, lines, codeBlockContent, ret, notDocVars>>

\* FenceClose without codeBlockContent = []: the payload outlives the block.
FenceClose_NoReset ==
    /\ InLoop
    /\ StartsWith(lines[idx], Fence)
    /\ inCodeBlock
    /\ LET f == flushBulletList(content, currentBulletList)
       IN  /\ content' = Append(f.content,
                                CodeBlockNode(codeBlockLang, codeBlockContent))
           /\ currentBulletList' = f.currentBulletList
    /\ codeBlockLang' = <<>>
    /\ inCodeBlock' = FALSE
    /\ idx' = idx + 1
    /\ UNCHANGED <<pc, markdown, lines, codeBlockContent, ret, notDocVars>>

\* if (line.startsWith('```')) with inCodeBlock true: end code block
FenceClose ==
    /\ InLoop
    /\ StartsWith(lines[idx], Fence)
    /\ inCodeBlock
    /\ LET f == flushBulletList(content, currentBulletList)
       IN  /\ content' = Append(f.content,
                                CodeBlockNode(codeBlockLang, codeBlockContent))
           /\ currentBulletList' = f.currentBulletList
    /\ codeBlockContent' = <<>>
    /\ codeBlockLang' = <<>>
    /\ inCodeBlock' = FALSE
    /\ idx' = idx + 1
    /\ UNCHANGED <<pc, markdown, lines, ret, notDocVars>>

\* if (inCodeBlock) codeBlockContent.push(line)
CodeLine ==
    /\ InLoop
    /\ ~StartsWith(lines[idx], Fence)
    /\ inCodeBlock
    /\ codeBlockContent' = Append(codeBlockContent, lines[idx])
    /\ idx' = idx + 1
    /\ UNCHANGED <<pc, markdown, lines, content, inCodeBlock, codeBlockLang,
                   currentBulletList, ret, notDocVars>>

\* the line reaches the classification below the fence handling
Classified == InLoop /\ ~StartsWith(lines[idx], Fence) /\ ~inCodeBlock

\* if (line.trim() === '') flushBulletList()
BlankLine ==
    /\ Classified
    /\ IsBlank(lines[idx])
    /\ LET f == flushBulletList(content, currentBulletList)
       IN  /\ content' = f.content
           /\ currentBulletList' = f.currentBulletList
    /\ idx' = idx + 1
    /\ UNCHANGED <<pc, markdown, lines, inCodeBlock, codeBlockContent,
                   codeBlockLang, ret, notDocVars>>

\* HeaderLine without the flushBulletList() before the push.
HeaderLine_NoFlush ==
    /\ Classified
    /\ ~IsBlank(lines[idx])
    /\ HeaderOf(lines[idx]) # Null
    /\ LET h == HeaderOf(lines[idx])
       IN  content' = Append(content, HeadingNode(h[1], h[2]))
    /\ idx' = idx + 1
    /\ UNCHANGED <<pc, markdown, lines, inCodeBlock, codeBlockContent,
                   codeBlockLang, currentBulletList, ret, notDocVars>>

\* if (h1Match) ... if (h2Match) ... if (h3Match) ...
HeaderLine ==
    /\ Classified
    /\ ~IsBlank(lines[idx])
    /\ HeaderOf(lines[idx]) # Null
    /\ LET f == flushBulletList(content, currentBulletList)
           h == HeaderOf(lines[idx])
       IN  /\ content' = Append(f.content, HeadingNode(h[1], h[2]))
           /\ currentBulletList' = f.currentBulletList
    /\ idx' = idx + 1
    /\ UNCHANGED <<pc, markdown, lines, inCodeBlock, codeBlockContent,
                   codeBlockLang, ret, notDocVars>>

\* if (bulletMatch) currentBulletList.push(listItem)
BulletLine ==
    /\ Classified
    /\ ~IsBlank(lines[idx])
    /\ HeaderOf(lines[idx]) = Null
    /\ BulletMatch(lines[idx]) # Null
    /\ LET list == IF currentBulletList = Null THEN <<>> ELSE currentBulletList[1]
       IN  currentBulletList' =
               <<Append(list, ListItemNode(BulletMatch(lines[idx])[1]))>>
    /\ idx' = idx + 1
    /\ UNCHANGED <<pc, markdown, lines, content, inCodeBlock, codeBlockContent,
                   codeBlockLang, ret, notDocVars>>

\* regular paragraph (ends bullet list)
ParagraphLine ==
    /\ Classified
    /\ ~IsBlank(lines[idx])
    /\ HeaderOf(lines[idx]) = Null
    /\ BulletMatch(lines[idx]) = Null
    /\ LET f == flushBulletList(content, currentBulletList)
       IN  /\ content' = Append(f.content, ParagraphNode(lines[idx]))
           /\ currentBulletList' = f.currentBulletList
    /\ idx' = idx + 1
    /\ UNCHANGED <<pc, markdown, lines, inCodeBlock, codeBlockContent,
                   codeBlockLang, ret, notDocVars>>

\* Return with the version field left out of the returned object.
Return_NoVersion ==
    /\ pc = "loop"
    /\ idx > Len(lines)
    /\ LET f == flushBulletList(content, currentBulletList)
       IN  /\ content' = f.content
           /\ currentBulletList' = f.currentBulletList
           /\ ret' = <<[type |-> "doc", content |-> f.content]>>
    /\ pc' = "done"
    /\ UNCHANGED <<markdown, lines, idx, inCodeBlock, codeBlockContent,
                   codeBlockLang, notDocVars>>

\* after the loop: flush any remaining bullet list and return the document
Return ==
    /\ pc = "loop"
    /\ idx > Len(lines)
    /\ LET f == flushBulletList(content, currentBulletList)
       IN  /\ content' = f.content
           /\ currentBulletList' = f.currentBulletList
           /\ ret' = <<[type |-> "doc", version |-> 1, content |-> f.content]>>
    /\ pc' = "done"
    /\ UNCHANGED <<markdown, lines, idx, inCodeBlock, codeBlockContent,
                   codeBlockLang, notDocVars>>

-----------------------------------------------------------------------------
(* Inputs                                                                  *)

MaxLines == 3
MaxFenceLines == 5
MaxChunks == 4

\* the non-empty sequences of at most n elements of S
SeqsUpTo(S, n) == UNION {[1..k -> S] : k \in 1..n}

\* Lines of every kind the classification distinguishes.
WideLines ==
    { <<>>,
      <<SP, CR>>,
      <<HASH, SP, "a">>,
      <<HASH, HASH, SP, "a">>,
      <<HASH, HASH, HASH, SP, "a">>,
      <<HASH, HASH, HASH, HASH, SP, "a">>,
      <<HASH, SP, STAR, STAR, "a", STAR, STAR>>,
      <<HASH, SP, "a", CR>>,
      <<DASH, SP, "a">>,
      <<STAR, SP, BT, "b", BT>>,
      <<DASH, SP, "a", CR>>,
      <<DASH, SP>>,
      <<"a">>,
      <<STAR, STAR, "b">>,
      <<BT, BT, BT>> }

\* Fence lines and lines a fence can hold.
FenceLines ==
    { <<BT, BT, BT>>,
      <<BT, BT, BT, "j">>,
      <<BT, BT, BT, SP, "j", SP>>,
      <<DASH, SP, "a">>,
      <<SP>> }

Documents ==
    {Join(ls) : ls \in SeqsUpTo(WideLines, MaxLines)
                       \cup SeqsUpTo(FenceLines, MaxFenceLines)}

\* Pieces of inline text; a text is a concatenation of at most MaxChunks.
Chunks ==
    { <<"a">>, <<BT>>, <<STAR>>, <<STAR, STAR>>, <<LBR>>, <<RBR, LPAR>>,
      <<RBR, LPAR, "b">>, <<RPAR>> }

RECURSIVE Concat(_)
Concat(ss) == IF ss = <<>> THEN <<>> ELSE Head(ss) \o Concat(Tail(ss))

Texts == {<<>>} \cup {Concat(cs) : cs \in SeqsUpTo(Chunks, MaxChunks)}

-----------------------------------------------------------------------------
(* Specifications                                                          *)

\* the variables of a function or command that is not running
NoExtract == adf = Null /\ pos = 1 /\ mapped = <<>> /\ extracted = Null
NoCalls == calls = 0 /\ earlier = <<>>
NoPullAll ==
    /\ root = Null
    /\ options = Null
    /\ scanned = <<>>
    /\ toPull = <<>>
    /\ notOnMain = <<>>
    /\ skipped = <<>>
    /\ running = <<>>
    /\ git = <<>>
    /\ results = Null
    /\ fetchedResults = Null
NoCreate ==
    /\ tracker = {}
    /\ runs = 0
    /\ createOptions = Null
    /\ description = Null
    /\ assigneeAccountId = Null
    /\ remote = <<>>
    /\ response = Null
    /\ issue = Null
    /\ exitCode = Null
    /\ output = <<>>
NoSanitize == title = <<>> /\ filename = Null /\ passes = 0
NoTools == NoCreate /\ NoSanitize
NoDocument ==
    /\ markdown = <<>>
    /\ lines = <<>>
    /\ idx = 1
    /\ content = <<>>
    /\ inCodeBlock = FALSE
    /\ codeBlockContent = <<>>
    /\ codeBlockLang = <<>>
    /\ currentBulletList = Null
    /\ ret = Null
NoInline == text = <<>> /\ remaining = <<>> /\ result = <<>> /\ parsed = Null

\* a call markdownToAdf(markdown)
Init ==
    /\ pc = "loop"
    /\ markdown \in Documents
    /\ lines = Split(markdown)
    /\ idx = 1
    /\ content = <<>>
    /\ inCodeBlock = FALSE
    /\ codeBlockContent = <<>>
    /\ codeBlockLang = <<>>
    /\ currentBulletList = Null
    /\ ret = Null
    /\ NoInline
    /\ NoExtract
    /\ NoCalls
    /\ NoPullAll
    /\ NoTools

Next ==
    \/ FenceOpen
    \/ FenceClose
    \/ CodeLine
    \/ BlankLine
    \/ HeaderLine
    \/ BulletLine
    \/ ParagraphLine
    \/ Return

Spec == Init /\ [][Next]_vars

\* a call parseInlineContent(text)
InitInline ==
    /\ pc = "scan"
    /\ text \in Texts
    /\ remaining = text
    /\ result = <<>>
    /\ parsed = Null
    /\ NoDocument
    /\ NoExtract
    /\ NoCalls
    /\ NoPullAll
    /\ NoTools

NextInline ==
    \/ InlineCode
    \/ InlineBold
    \/ InlineLink
    \/ InlinePlain
    \/ InlineSingle
    \/ InlineReturn

SpecInline == InitInline /\ [][NextInline]_vars

-----------------------------------------------------------------------------
(* Shapes of the data model                                                *)

IsInline(n) ==
    /\ {"type", "text"} \subseteq DOMAIN n
    /\ DOMAIN n \subseteq {"type", "text", "marks"}
    /\ n.type = "text"

IsInlineSeq(ns) == \A k \in 1..Len(ns) : IsInline(ns[k])

IsParagraph(b) ==
    /\ DOMAIN b = {"type", "content"}
    /\ b.type = "paragraph"
    /\ IsInlineSeq(b.content)

IsHeading(b) ==
    /\ DOMAIN b = {"type", "attrs", "content"}
    /\ b.type = "heading"
    /\ b.attrs.level \in 1..3
    /\ IsInlineSeq(b.content)

IsListItem(b) ==
    /\ DOMAIN b = {"type", "content"}
    /\ b.type = "listItem"
    /\ Len(b.content) = 1
    /\ IsParagraph(b.content[1])

IsBulletList(b) ==
    /\ DOMAIN b = {"type", "content"}
    /\ b.type = "bulletList"
    /\ \A k \in 1..Len(b.content) : IsListItem(b.content[k])

IsCodeBlock(b) ==
    /\ DOMAIN b = {"type", "attrs", "content"}
    /\ b.type = "codeBlock"
    /\ DOMAIN b.attrs = {"language"}
    /\ Len(b.content) = 1
    /\ DOMAIN b.content[1] = {"type", "text"}
    /\ b.content[1].type = "text"

IsBlock(b) ==
    IsParagraph(b) \/ IsHeading(b) \/ IsBulletList(b) \/ IsCodeBlock(b)

IsDocument(d) ==
    /\ DOMAIN d = {"type", "version", "content"}
    /\ d.type = "doc"
    /\ d.version = 1
    /\ \A k \in 1..Len(d.content) : IsBlock(d.content[k])

Done == pc = "done"
Doc == ret[1]

-----------------------------------------------------------------------------
(* Claims                                                                  *)

\* C1: markdownToAdf never fails.  Whatever the input (the empty string, an
\* unterminated fence, unmatched inline delimiters), every line of it is taken
\* by one branch of the loop, the blocks built are block nodes throughout, and
\* the call returns a document root of type 'doc' and version 1 whose content
\* is a sequence of block nodes.
C1_NeverFails ==
    /\ pc = "loop" => ret = Null /\ idx <= Len(lines) + 1
    /\ \A k \in 1..Len(content) : IsBlock(content[k])
    /\ Done => /\ ret # Null
               /\ IsDocument(Doc)
               /\ idx = Len(lines) + 1

\* C1 witness: the call returned on an input with a fence left open and a
\* line with an unmatched delimiter.
C1_Witness ==
    /\ Done
    /\ inCodeBlock
    /\ \E k \in 1..Len(lines) : lines[k] = <<STAR, STAR, "b">>
    /\ Len(Doc.content) > 0

-----------------------------------------------------------------------------
(* The input as the claims describe it                                     *)

\* a line beginning with three backticks
FenceLine(l) == Len(l) >= 3 /\ l[1] = BT /\ l[2] = BT /\ l[3] = BT

\* the number of fence lines before line k
FencesBefore(k) == Cardinality({j \in 1..(k - 1) : FenceLine(lines[j])})

\* line k is no fence line and lies outside every fenced block
Outside(k) == ~FenceLine(lines[k]) /\ FencesBefore(k) % 2 = 0

\* line k is no fence line and lies after an opening fence line
Inside(k) == ~FenceLine(lines[k]) /\ FencesBefore(k) % 2 = 1

\* a dash or asterisk, a space, then content
BulletText(l) == Len(l) >= 3 /\ l[1] \in {DASH, STAR} /\ l[2] = SP

\* no character of s is a line terminator
NoTerminator(s) == \A k \in 1..Len(s) : s[k] \notin LineTerminators

\* line k is a bullet line outside a fence (strict: its content holds no
\* line terminator)
BulletAt(k, strict) ==
    /\ k \in 1..Len(lines)
    /\ Outside(k)
    /\ BulletText(lines[k])
    /\ strict => NoTerminator(lines[k])

\* the last line of the maximal run of bullet lines that holds line k
RECURSIVE RunEnd(_, _)
RunEnd(k, strict) ==
    IF BulletAt(k + 1, strict) THEN RunEnd(k + 1, strict) ELSE k

\* the list item of a bullet line: one paragraph of its inline-parsed content
ItemOf(l) ==
    [type |-> "listItem",
     content |-> <<[type |-> "paragraph",
                    content |-> parseInlineContent(Slice(l, 2))]>>]

\* one bulletList per maximal run of bullet lines from line k on, in order
RECURSIVE ExpectedLists(_, _)
ExpectedLists(k, strict) ==
    IF k > Len(lines) THEN <<>>
    ELSE IF BulletAt(k, strict)
    THEN LET e == RunEnd(k, strict)
         IN  <<[type |-> "bulletList",
                content |-> [j \in 1..(e - k + 1) |-> ItemOf(lines[k + j - 1])]]>>
             \o ExpectedLists(e + 1, strict)
    ELSE ExpectedLists(k + 1, strict)

IsList(b) == b.type = "bulletList"

\* C2: every maximal run of consecutive bullet lines (dash or asterisk, a
\* space, then content) outside a fence yields exactly one bulletList holding
\* one listItem per line in source order; a blank or non-bullet line ends the
\* run, and no bulletList is empty.  Stated for every content: violated by the
\* code for a bullet line whose content holds a carriage return.
C2_BulletRuns ==
    Done => /\ SelectSeq(Doc.content, IsList) = ExpectedLists(1, FALSE)
            /\ \A k \in 1..Len(Doc.content) :
                   IsList(Doc.content[k]) => Len(Doc.content[k].content) > 0

\* C2 restricted to bullet lines whose content holds no line terminator: the
\* part of the claim the code satisfies.
C2_BulletRunsNoTerminator ==
    Done => /\ SelectSeq(Doc.content, IsList) = ExpectedLists(1, TRUE)
            /\ \A k \in 1..Len(Doc.content) :
                   IsList(Doc.content[k]) => Len(Doc.content[k].content) > 0

\* two runs separated by a blank line gave two lists, the first of two items
C2_TwoRuns ==
    /\ Done
    /\ Len(SelectSeq(Doc.content, IsList)) = 2
    /\ Len(SelectSeq(Doc.content, IsList)[1].content) = 2
    /\ \E k \in 1..Len(lines) : Outside(k) /\ IsBlank(lines[k])

\* every character of l is white space
BlankText(l) == \A k \in 1..Len(l) : l[k] \in WhiteSpace

\* the first fence line at or after line k, 0 when there is none
RECURSIVE NextFence(_)
NextFence(k) ==
    IF k > Len(lines) THEN 0
    ELSE IF FenceLine(lines[k]) THEN k
    ELSE NextFence(k + 1)

\* the number of characters of markdown before line k
RECURSIVE Offset(_)
Offset(k) == IF k = 1 THEN 0 ELSE Offset(k - 1) + Len(lines[k - 1]) + 1

\* the text of markdown from the start of line a to the end of line b, the
\* newlines between them included (empty when b < a)
Between(a, b) ==
    IF b < a THEN <<>>
    ELSE SubSeq(markdown, Offset(a) + 1, Offset(b) + Len(lines[b]))

\* the pairs <<opening fence line, closing fence line>> from line k on
RECURSIVE FencePairs(_)
FencePairs(k) ==
    LET o == NextFence(k)
        c == NextFence(o + 1)
    IN  IF o = 0 \/ c = 0 THEN <<>> ELSE <<<<o, c>>>> \o FencePairs(c + 1)

IsCode(b) == b.type = "codeBlock"

CodeBlocks == SelectSeq(Doc.content, IsCode)

\* the list items, headings and paragraphs of the blocks bs
RECURSIVE Produced(_)
Produced(bs) ==
    IF bs = <<>> THEN 0
    ELSE (IF IsList(Head(bs)) THEN Len(Head(bs).content)
          ELSE IF IsCode(Head(bs)) THEN 0 ELSE 1) + Produced(Tail(bs))

\* C3: the lines between an opening fence line and the next line beginning
\* with three backticks are the payload of one codeBlock, whose text is the
\* very text of the input between the two fence lines (those lines joined by
\* newline).  None of them yields a heading, list item or paragraph or is
\* dropped as blank: the headings, list items and paragraphs of the document
\* are as many as the non-blank lines outside the fences, and a payload holds
\* nothing of an earlier code block.
C3_FencePayload ==
    Done =>
        LET pairs == FencePairs(1)
        IN  /\ Len(CodeBlocks) = Len(pairs)
            /\ \A n \in 1..Len(pairs) :
                   /\ Len(CodeBlocks[n].content) = 1
                   /\ CodeBlocks[n].content[1].text =
                          Between(pairs[n][1] + 1, pairs[n][2] - 1)
            /\ Produced(Doc.content) =
                   Cardinality({k \in 1..Len(lines) :
                                    Outside(k) /\ ~BlankText(lines[k])})

\* C3 witness: two code blocks were returned, the first holding a bullet
\* line as its text, the second holding nothing.
C3_Witness ==
    /\ Done
    /\ Len(CodeBlocks) = 2
    /\ CodeBlocks[1].content[1].text = <<DASH, SP, "a">>
    /\ CodeBlocks[2].content[1].text = <<>>

\* s without its leading and trailing white space
Stripped(s) ==
    LET keep == {k \in 1..Len(s) : s[k] \notin WhiteSpace}
    IN  IF keep = {} THEN <<>>
        ELSE SubSeq(s, CHOOSE a \in keep : \A k \in keep : a <= k,
                       CHOOSE b \in keep : \A k \in keep : b >= k)

\* the characters that follow the three backticks of line k
AfterFence(k) == SubSeq(lines[k], 4, Len(lines[k]))

\* C7 as stated: the language of each codeBlock is, verbatim, what follows
\* the three backticks on its own opening line, and 'text' when nothing
\* follows.  Violated by the code, which trims the remainder.
C7_LanguageVerbatim ==
    Done =>
        LET pairs == FencePairs(1)
        IN  /\ Len(CodeBlocks) = Len(pairs)
            /\ \A n \in 1..Len(pairs) :
                   CodeBlocks[n].attrs.language =
                       (IF AfterFence(pairs[n][1]) = <<>> THEN DefaultLang
                        ELSE AfterFence(pairs[n][1]))

\* C7 amended: the language of each codeBlock is what follows the three
\* backticks on its own opening line with the white space around it removed,
\* and 'text' when nothing is left; no other line decides it.
C7_LanguageTrimmed ==
    Done =>
        LET pairs == FencePairs(1)
        IN  /\ Len(CodeBlocks) = Len(pairs)
            /\ \A n \in 1..Len(pairs) :
                   CodeBlocks[n].attrs.language =
                       (IF Stripped(AfterFence(pairs[n][1])) = <<>> THEN DefaultLang
                        ELSE Stripped(AfterFence(pairs[n][1])))

\* C7 witness: a block opened by "``` j " has the language "j", and a block
\* opened after it by bare backticks has the language 'text'.
C7_Witness ==
    /\ Done
    /\ Len(CodeBlocks) = 2
    /\ lines[FencePairs(1)[1][1]] = <<BT, BT, BT, SP, "j", SP>>
    /\ CodeBlocks[1].attrs.language = <<"j">>
    /\ lines[FencePairs(1)[2][1]] = <<BT, BT, BT>>
    /\ CodeBlocks[2].attrs.language = DefaultLang

\* n '#' characters, a space and content
HeadingText(l, n) ==
    /\ Len(l) >= n + 2
    /\ \A k \in 1..n : l[k] = HASH
    /\ l[n + 1] = SP

\* the heading the claim gives line l: level n, its raw remainder as one
\* unmarked text node
HeadingOf(l, n) ==
    [type |-> "heading",
     attrs |-> [level |-> n],
     content |-> <<[type |-> "text", text |-> SubSeq(l, n + 2, Len(l))]>>]

\* one heading per heading line outside a fence from line k on, in order
\* (strict: only lines that hold no line terminator count)
RECURSIVE ExpectedHeadings(_, _)
ExpectedHeadings(k, strict) ==
    IF k > Len(lines) THEN <<>>
    ELSE LET l == lines[k]
             ns == {n \in 1..3 : HeadingText(l, n)}
         IN  (IF Outside(k) /\ ns # {} /\ (strict => NoTerminator(l))
              THEN <<HeadingOf(l, CHOOSE n \in ns : TRUE)>> ELSE <<>>)
             \o ExpectedHeadings(k + 1, strict)

IsHead(b) == b.type = "heading"

\* C6: a line made of one, two or three '#' characters, a space and content
\* becomes a heading whose level is the number of hashes and whose content is
\* exactly one unmarked text node holding the raw remainder of the line
\* (inline markup in it is not parsed).  Stated for every content: violated by
\* the code for a heading line whose content holds a carriage return.
C6_Headings ==
    Done => SelectSeq(Doc.content, IsHead) = ExpectedHeadings(1, FALSE)

\* C6 restricted to heading lines that hold no line terminator: the part of
\* the claim the code satisfies.
C6_HeadingsNoTerminator ==
    Done => SelectSeq(Doc.content, IsHead) = ExpectedHeadings(1, TRUE)

\* the line '# **a**' gave a level-1 heading holding the unmarked text '**a**'
C6_RawHeading ==
    /\ Done
    /\ lines = <<<<HASH, SP, STAR, STAR, "a", STAR, STAR>>>>
    /\ Doc.content =
           <<[type |-> "heading", attrs |-> [level |-> 1],
              content |-> <<[type |-> "text",
                             text |-> <<STAR, STAR, "a", STAR, STAR>>]>>]>>

\* the pending bullet list as the node a flush appends (none: no node)
Pending ==
    IF currentBulletList = Null THEN <<>>
    ELSE <<[type |-> "bulletList", content |-> currentBulletList[1]]>>

\* the blocks a step appends to content
Added == SubSeq(content', Len(content) + 1, Len(content'))

\* C4: the top-level blocks appear in the order of the source lines that
\* produced them.  Each step of the loop only appends to content (no block
\* is moved, merged or removed); a bullet list enters content only as the
\* pending list, whole; and whenever a line appends a heading, paragraph or
\* code block, opens a fence, or the input ends while a list is pending, the
\* pending list is appended first.  The document returned holds content as
\* built.
C4_SourceOrder ==
    [][ pc = "loop" =>
          /\ Len(content') >= Len(content)
          /\ SubSeq(content', 1, Len(content)) = content
          /\ Len(Added) <= 2
          /\ \A j \in 1..Len(Added) :
                 IsList(Added[j]) => j = 1 /\ <<Added[1]>> = Pending
          /\ Len(Added) = 2 => IsList(Added[1])
          /\ (/\ currentBulletList # Null
              /\ \/ Added # <<>>
                 \/ pc' = "done"
                 \/ inCodeBlock' /\ ~inCodeBlock)
             => /\ Added # <<>>
                /\ <<Added[1]>> = Pending
                /\ currentBulletList' = Null
          /\ pc' = "done" => ret'[1].content = content'
      ]_vars

\* C4 witness: a bullet line, an opening fence and a closing fence gave the
\* list first and the code block second.
C4_Witness ==
    /\ Done
    /\ Len(lines) = 3
    /\ BulletText(lines[1]) /\ FenceLine(lines[2]) /\ FenceLine(lines[3])
    /\ Len(Doc.content) = 2
    /\ IsList(Doc.content[1])
    /\ IsCode(Doc.content[2])

\* C10: for the empty string and for any input made only of blank lines the
\* document returned has zero blocks; outside a fence a blank line appends no
\* block of its own, it only flushes the pending bullet list.
C10_BlankLines ==
    [][ /\ (/\ pc = "loop"
            /\ idx <= Len(lines)
            /\ Outside(idx)
            /\ BlankText(lines[idx]))
           => /\ content' = content \o Pending
              /\ currentBulletList' = Null
        /\ (/\ pc' = "done"
            /\ \A k \in 1..Len(lines) : BlankText(lines[k]))
           => ret'[1].content = <<>>
      ]_vars

\* C10 witness: an input of three blank lines, one of them holding white
\* space, returned a document with zero blocks.
C10_Witness ==
    /\ Done
    /\ Len(lines) = 3
    /\ \A k \in 1..Len(lines) : BlankText(lines[k])
    /\ \E k \in 1..Len(lines) : lines[k] # <<>>
    /\ Doc.content = <<>>

\* a call of either function
InitBoth == Init \/ InitInline
NextBoth == Next \/ NextInline
SpecBoth == InitBoth /\ [][NextBoth]_vars

\* the headings and paragraphs of the blocks bs hold at least one inline node
NonEmptyInlines(bs) ==
    \A k \in 1..Len(bs) :
        /\ bs[k].type \in {"heading", "paragraph"} => Len(bs[k].content) >= 1
        /\ bs[k].type = "bulletList" =>
               \A j \in 1..Len(bs[k].content) :
                   /\ Len(bs[k].content[j].content) = 1
                   /\ Len(bs[k].content[j].content[1].content) >= 1

\* C5: every heading and every paragraph (the paragraph of each list item
\* included) built or returned by markdownToAdf holds a non-empty sequence of
\* inline nodes, and parseInlineContent returns a single space text node, never
\* an empty sequence, when its loop produced nothing.
C5_NonEmptyInline ==
    /\ NonEmptyInlines(content)
    /\ NonEmptyInlines(Pending)
    /\ Done => NonEmptyInlines(Doc.content)
    /\ pc = "returned" =>
           /\ Len(parsed[1]) >= 1
           /\ result = <<>> => parsed[1] = <<[type |-> "text", text |-> <<SP>>]>>

\* C5 witness: parseInlineContent returned the placeholder for a text that
\* produced no node.
C5_Witness ==
    /\ pc = "returned"
    /\ result = <<>>
    /\ parsed = <<<<[type |-> "text", text |-> <<SP>>]>>>>

-----------------------------------------------------------------------------
(* The inline rules as the claims describe them                            *)

Triggers == {BT, STAR, LBR}

\* r opens with a backtick, one or more non-backtick characters and a
\* backtick at position n
CodeAt(r, n) ==
    /\ 3 <= n /\ n <= Len(r)
    /\ r[1] = BT /\ r[n] = BT
    /\ \A j \in 2..(n - 1) : r[j] # BT

\* r opens with two asterisks, one or more non-asterisk characters and two
\* asterisks at positions n, n + 1
BoldAt(r, n) ==
    /\ 4 <= n /\ n + 1 <= Len(r)
    /\ r[1] = STAR /\ r[2] = STAR /\ r[n] = STAR /\ r[n + 1] = STAR
    /\ \A j \in 3..(n - 1) : r[j] # STAR

\* r opens with [label](href): the ']' at position n, the ')' at position m
LinkAt(r, n, m) ==
    /\ 3 <= n /\ n + 3 <= m /\ m <= Len(r)
    /\ r[1] = LBR /\ r[n] = RBR /\ r[n + 1] = LPAR /\ r[m] = RPAR
    /\ \A j \in 2..(n - 1) : r[j] # RBR
    /\ \A j \in (n + 2)..(m - 1) : r[j] # RPAR

\* r opens with a run of p characters none of which is a trigger, and the
\* run is the longest
PlainAt(r, p) ==
    /\ 1 <= p /\ p <= Len(r)
    /\ \A j \in 1..p : r[j] \notin Triggers
    /\ p < Len(r) => r[p + 1] \in Triggers

Marked(t, mark) == [type |-> "text", text |-> t, marks |-> <<mark>>]
Unmarked(t) == [type |-> "text", text |-> t]

\* what the rules of the claim make of a non-empty r: <<node, rest>>
Expected(r) ==
    IF \E n \in 1..Len(r) : CodeAt(r, n)
    THEN LET n == CHOOSE n \in 1..Len(r) : CodeAt(r, n)
         IN  <<Marked(SubSeq(r, 2, n - 1), [type |-> "code"]),
               SubSeq(r, n + 1, Len(r))>>
    ELSE IF \E n \in 1..Len(r) : BoldAt(r, n)
    THEN LET n == CHOOSE n \in 1..Len(r) : BoldAt(r, n)
         IN  <<Marked(SubSeq(r, 3, n - 1), [type |-> "strong"]),
               SubSeq(r, n + 2, Len(r))>>
    ELSE IF \E n, m \in 1..Len(r) : LinkAt(r, n, m)
    THEN LET nm == CHOOSE nm \in (1..Len(r)) \X (1..Len(r)) :
                       LinkAt(r, nm[1], nm[2])
         IN  <<Marked(SubSeq(r, 2, nm[1] - 1),
                      [type |-> "link",
                       attrs |-> [href |-> SubSeq(r, nm[1] + 2, nm[2] - 1)]]),
               SubSeq(r, nm[2] + 1, Len(r))>>
    ELSE IF \E q \in 1..Len(r) : PlainAt(r, q)
    THEN LET q == CHOOSE q \in 1..Len(r) : PlainAt(r, q)
         IN  <<Unmarked(SubSeq(r, 1, q)), SubSeq(r, q + 1, Len(r))>>
    ELSE <<Unmarked(<<r[1]>>), SubSeq(r, 2, Len(r))>>

SourceOf(n) ==
    IF "marks" \notin DOMAIN n THEN n.text
    ELSE IF n.marks[1].type = "code" THEN <<BT>> \o n.text \o <<BT>>
    ELSE IF n.marks[1].type = "strong"
    THEN <<STAR, STAR>> \o n.text \o <<STAR, STAR>>
    ELSE <<LBR>> \o n.text \o <<RBR, LPAR>> \o n.marks[1].attrs.href \o <<RPAR>>

RECURSIVE SourcesOf(_)
SourcesOf(ns) == IF ns = <<>> THEN <<>> ELSE SourceOf(Head(ns)) \o SourcesOf(Tail(ns))

\* C9: parseInlineContent terminates on every text.  The call is never stuck
\* before its return; each scan step pushes one node and consumes at least
\* one character, leaving a proper suffix of what remained; the nodes pushed
\* so far are, in order, the text scanned so far; and the value returned is a
\* non-empty sequence of text nodes.
C9_ScanTerminates ==
    /\ [](pc = "scan" => ENABLED NextInline)
    /\ [](pc \in {"scan", "returned"} => SourcesOf(result) \o remaining = text)
    /\ [](pc = "returned" =>
              /\ remaining = <<>>
              /\ Len(parsed[1]) >= 1
              /\ IsInlineSeq(parsed[1])
              /\ result # <<>> => parsed[1] = result)
    /\ [][ (pc = "scan" /\ pc' = "scan") =>
             /\ Len(result') = Len(result) + 1
             /\ SubSeq(result', 1, Len(result)) = result
             /\ Len(remaining') < Len(remaining)
             /\ remaining' = SubSeq(remaining,
                                    Len(remaining) - Len(remaining') + 1,
                                    Len(remaining))
         ]_vars

\* C9 witness: the text '`a`*' was returned as two nodes in source order,
\* the code run and then the lone asterisk.
C9_Witness ==
    /\ pc = "returned"
    /\ text = <<BT, "a", BT, STAR>>
    /\ Len(parsed[1]) = 2
    /\ parsed[1][1] = Marked(<<"a">>, [type |-> "code"])
    /\ parsed[1][2] = Unmarked(<<STAR>>)

-----------------------------------------------------------------------------
(* extractTextFromAdf                                                      *)
(*                                                                         *)
(* The argument is of unknown shape, so the model holds JavaScript values  *)
(* of every kind.  An object is a record of the properties it has; any     *)
(* other value is a record [js |-> kind].  A content property that holds   *)
(* an array is the field content (a sequence); a content property that     *)
(* holds anything else is the field contentNotArray.                       *)

Js(kind) == [js |-> kind]
JsKinds == {"undefined", "null", "false", "true", "zero", "number",
            "emptyString", "string"}

\* v && typeof v === 'object'  (null is falsy, every other [js |-> kind] is
\* no object)
IsObject(v) == "js" \notin DOMAIN v

\* v is truthy
IsTruthy(v) == IF IsObject(v) THEN TRUE ELSE v.js \in {"true", "number", "string"}

\* v is null or undefined
Nullish(v) == IF IsObject(v) THEN FALSE ELSE v.js \in {"null", "undefined"}

\* n.type === t
HasType(n, t) == "type" \in DOMAIN n /\ n.type = t

\* n.text is truthy
HasText(n) == "text" \in DOMAIN n /\ n.text # <<>>

\* n.content is truthy (an array is, even when empty)
HasContent(n) ==
    \/ "content" \in DOMAIN n
    \/ "contentNotArray" \in DOMAIN n /\ IsTruthy(n.contentNotArray)

\* what an evaluation gives: a string, or a TypeError thrown
Value(s) == [threw |-> FALSE, text |-> s]
Thrown == [threw |-> TRUE, text |-> <<>>]

RECURSIVE extractNode(_)

\* arr.map((c) => prefix + extractNode(c)).join(sep)
RECURSIVE MapJoin(_, _, _)
MapJoin(arr, prefix, sep) ==
    IF arr = <<>> THEN Value(<<>>)
    ELSE LET h == extractNode(Head(arr))
             t == MapJoin(Tail(arr), prefix, sep)
         IN  IF h.threw \/ t.threw THEN Thrown
             ELSE Value(prefix \o h.text
                        \o (IF Len(arr) > 1 THEN sep ELSE <<>>) \o t.text)

\* n.content.map(...).join(sep) for a truthy n.content: a value that is no
\* array has no map method, and calling it throws
MapContent(n, prefix, sep) ==
    IF "content" \in DOMAIN n THEN MapJoin(n.content, prefix, sep) ELSE Thrown

\* n.content.map((item) => '- ' + extractNode(item, depth + 1)).join('\n') + '\n'
BulletListText(n) ==
    LET m == MapContent(n, <<DASH, SP>>, <<NL>>)
    IN  IF m.threw THEN Thrown ELSE Value(m.text \o <<NL>>)

\* the list item without trim()
ListItemText_NoTrim(n) == MapContent(n, <<>>, <<>>)

\* n.content.map((c) => extractNode(c, depth)).join('').trim()
ListItemText(n) ==
    LET m == MapContent(n, <<>>, <<>>)
    IN  IF m.threw THEN Thrown ELSE Value(Trim(m.text))

\* a node of no handled type contributing nothing
OtherText_Dropped(n) == Value(<<>>)

\* if (n.content) return n.content.map((c) => extractNode(c, depth)).join('')
OtherText(n) == MapContent(n, <<>>, <<>>)

\* extractNode(node, depth); depth decides nothing
extractNode(node) ==
    IF ~IsObject(node) THEN Value(<<>>)
    ELSE IF HasType(node, "text") /\ HasText(node) THEN Value(node.text)
    ELSE IF HasType(node, "bulletList") /\ HasContent(node) THEN BulletListText(node)
    ELSE IF HasType(node, "listItem") /\ HasContent(node) THEN ListItemText(node)
    ELSE IF HasType(node, "paragraph") /\ HasContent(node)
    THEN MapContent(node, <<>>, <<>>)
    ELSE IF HasType(node, "heading") /\ HasContent(node)
    THEN MapContent(node, <<>>, <<>>)
    ELSE IF HasContent(node) THEN OtherText(node)
    ELSE Value(<<>>)

\* the top-level callback without the newline after a paragraph or heading
BlockText_NoNewline(node) ==
    LET t == extractNode(node)
    IN  IF t.threw THEN Thrown
        ELSE IF Nullish(node) THEN Thrown
        ELSE t

\* the callback of the top-level map: extractNode(node), then n.type is read
\* (of null and of undefined no property can be read)
BlockText(node) ==
    LET t == extractNode(node)
    IN  IF t.threw THEN Thrown
        ELSE IF Nullish(node) THEN Thrown
        ELSE IF HasType(node, "paragraph") \/ HasType(node, "heading")
        THEN Value(t.text \o <<NL>>)
        ELSE IF HasType(node, "bulletList") THEN t
        ELSE t

\* doc.content.map(callback).join('')
RECURSIVE MapBlocks(_)
MapBlocks(arr) ==
    IF arr = <<>> THEN Value(<<>>)
    ELSE LET h == BlockText(Head(arr))
             t == MapBlocks(Tail(arr))
         IN  IF h.threw \/ t.threw THEN Thrown ELSE Value(h.text \o t.text)

\* how a call ends: it returns undefined, returns a string, or throws
Undefined == [completion |-> "return", value |-> Null]
Returned(s) == [completion |-> "return", value |-> <<s>>]
Threw == [completion |-> "throw", value |-> Null]

\* extractTextFromAdf(a) as one call
extractTextFromAdf(a) ==
    IF ~IsObject(a) THEN Undefined
    ELSE IF ~HasContent(a) THEN Undefined
    ELSE IF "content" \notin DOMAIN a THEN Threw
    ELSE LET m == MapBlocks(a.content)
         IN  IF m.threw THEN Threw ELSE Returned(Trim(m.text))

\* The same function step by step, one action per return and per step of
\* the top-level map.

\* if (!adf || typeof adf !== 'object') return undefined;
\* if (!doc.content) return undefined;
ExtractReject ==
    /\ pc = "extract"
    /\ ~IsObject(adf) \/ ~HasContent(adf)
    /\ extracted' = Null
    /\ pc' = "extracted"
    /\ UNCHANGED <<adf, pos, mapped, docVars, inlineVars, callVars, pullVars,
                   toolVars>>

\* doc.content.map(...) on a truthy content that is no array
ExtractNotArray ==
    /\ pc = "extract"
    /\ IsObject(adf) /\ HasContent(adf)
    /\ "content" \notin DOMAIN adf
    /\ pc' = "threw"
    /\ UNCHANGED <<adfVars, docVars, inlineVars, callVars, pullVars, toolVars>>

InMap ==
    /\ pc = "extract"
    /\ IsObject(adf)
    /\ "content" \in DOMAIN adf
    /\ pos <= Len(adf.content)

\* the callback returns for the node at pos
ExtractBlock ==
    /\ InMap
    /\ ~BlockText(adf.content[pos]).threw
    /\ mapped' = Append(mapped, BlockText(adf.content[pos]).text)
    /\ pos' = pos + 1
    /\ UNCHANGED <<pc, adf, extracted, docVars, inlineVars, callVars, pullVars,
                   toolVars>>

\* the callback throws for the node at pos
ExtractBlockThrow ==
    /\ InMap
    /\ BlockText(adf.content[pos]).threw
    /\ pc' = "threw"
    /\ UNCHANGED <<adfVars, docVars, inlineVars, callVars, pullVars, toolVars>>

\* .join('').trim()
ExtractReturn ==
    /\ pc = "extract"
    /\ IsObject(adf)
    /\ "content" \in DOMAIN adf
    /\ pos > Len(adf.content)
    /\ extracted' = <<Trim(Concat(mapped))>>
    /\ pc' = "extracted"
    /\ UNCHANGED <<adf, pos, mapped, docVars, inlineVars, callVars, pullVars,
                   toolVars>>

MaxBlocks == 2

Para(c) == [type |-> "paragraph", content |-> c]
Item(c) == [type |-> "listItem", content |-> c]
List(c) == [type |-> "bulletList", content |-> c]

\* Top-level children of every kind the extractor distinguishes.
AdfBlocks ==
    { Para(<<Unmarked(<<"a">>)>>),
      Para(<<Unmarked(<<SP, "b">>), Marked(<<"c", SP>>, [type |-> "strong"])>>),
      Para(<<Unmarked(<<SP>>)>>),
      Para(<<>>),
      [type |-> "paragraph"],
      HeadingNode(2, <<"a">>),
      List(<<Item(<<Para(<<Unmarked(<<SP, "a", SP>>)>>)>>),
             Item(<<Para(<<Unmarked(<<"b">>)>>)>>)>>),
      List(<<>>),
      List(<<Para(<<Unmarked(<<SP, "a">>)>>)>>),
      CodeBlockNode(<<"j">>, << <<"x">>, <<SP, "y">> >>),
      [type |-> "panel",
       content |-> <<Para(<<Unmarked(<<"a">>)>>), Unmarked(<<"b">>)>>],
      [type |-> "rule"],
      Unmarked(<<"a">>),
      Unmarked(<<>>),
      Js("null"),
      Js("undefined"),
      Js("string"),
      [type |-> "paragraph", contentNotArray |-> Js("string")],
      [type |-> "paragraph", contentNotArray |-> Js("zero")],
      [type |-> "panel", content |-> <<Js("null"), Unmarked(<<"a">>)>>],
      [type |-> "panel",
       content |-> <<[type |-> "panel", contentNotArray |-> [version |-> 1]]>>] }

\* Arguments of every shape: no object, no content, a content that is no
\* array, and documents of at most MaxBlocks top-level children.
Adfs ==
    {Js(k) : k \in JsKinds}
    \cup {[type |-> "doc", version |-> 1]}
    \cup {[type |-> "doc", version |-> 1, contentNotArray |-> v] :
              v \in {Js(k) : k \in JsKinds} \cup {[version |-> 1]}}
    \cup {[type |-> "doc", version |-> 1, content |-> c] :
              c \in {<<>>} \cup SeqsUpTo(AdfBlocks, MaxBlocks)}

\* a call extractTextFromAdf(adf)
InitExtract ==
    /\ pc = "extract"
    /\ adf \in Adfs
    /\ pos = 1
    /\ mapped = <<>>
    /\ extracted = Null
    /\ NoDocument
    /\ NoInline
    /\ NoCalls
    /\ NoPullAll
    /\ NoTools

NextExtract ==
    \/ ExtractReject
    \/ ExtractNotArray
    \/ ExtractBlock
    \/ ExtractBlockThrow
    \/ ExtractReturn

SpecExtract == InitExtract /\ [][NextExtract]_vars

\* the call has ended: it returned or it threw
Ended == pc \in {"extracted", "threw"}

\* what the call ended with
Completion ==
    IF pc = "threw" THEN Threw
    ELSE IF extracted = Null THEN Undefined ELSE Returned(extracted[1])

\* the steps give what the function gives as one call
ExtractAgrees == Ended => Completion = extractTextFromAdf(adf)

-----------------------------------------------------------------------------
(* Claims about extractTextFromAdf                                         *)

\* C11: extractTextFromAdf never fails.  For input of any unexpected shape
\* (absent, not an object, a content field that is absent or not a sequence,
\* children that are not objects or whose content is not a sequence) the call
\* returns and never throws.  Violated by the code: a truthy content that is
\* no array has no map method, and the type of a null or undefined top-level
\* child cannot be read.
C11_NeverFails == pc # "threw"

\* below node, a content the extractor reaches is truthy and no array
RECURSIVE NotArrayIn(_)
NotArrayIn(node) ==
    /\ IsObject(node)
    /\ ~(HasType(node, "text") /\ HasText(node))
    /\ HasContent(node)
    /\ "content" \in DOMAIN node =>
           \E k \in 1..Len(node.content) : NotArrayIn(node.content[k])

\* The part of C11 the code satisfies: the call throws only for a truthy
\* content that is no array or a null or undefined top-level child, and it
\* returns undefined exactly when the argument is no object or has no truthy
\* content.
C11_FailsOnlyOn ==
    /\ pc = "threw" =>
           \/ "content" \notin DOMAIN adf
           \/ \E k \in 1..Len(adf.content) :
                  Nullish(adf.content[k]) \/ NotArrayIn(adf.content[k])
    /\ (pc = "extracted" /\ extracted = Null) <=>
           (Ended /\ (~IsObject(adf) \/ ~HasContent(adf)))

\* the call threw on a document whose only top-level child is null
C11_NullBlock ==
    /\ pc = "threw"
    /\ IsObject(adf)
    /\ "content" \in DOMAIN adf
    /\ adf.content = <<Js("null")>>

\* the nodes of the tree under n
RECURSIVE NodesOf(_)
NodesOf(n) ==
    IF IsObject(n) /\ "content" \in DOMAIN n
    THEN {n} \cup UNION {NodesOf(n.content[k]) : k \in 1..Len(n.content)}
    ELSE {n}

\* an object whose type is none of those the extractor handles
Unrecognised(n) ==
    /\ IsObject(n)
    /\ \A t \in {"text", "bulletList", "listItem", "paragraph", "heading"} :
           ~HasType(n, t)

\* the extracted texts of the children of n, concatenated in order (a throw
\* in a child is a throw of the whole)
ChildrenText(n) ==
    LET rs == [k \in 1..Len(n.content) |-> extractNode(n.content[k])]
    IN  IF \E k \in 1..Len(rs) : rs[k].threw THEN Thrown
        ELSE Value(Concat([k \in 1..Len(rs) |-> rs[k].text]))

\* C12: a node of unrecognised type contributes '' without raising when it
\* has no content field, and the concatenation of its children's extracted
\* text when it has children; so for every such node of the argument, at any
\* depth, and so in what the top-level map has produced for such a child.
C12_UnknownNodes ==
    /\ \A n \in NodesOf(adf) :
           Unrecognised(n) =>
               /\ DOMAIN n \cap {"content", "contentNotArray"} = {} =>
                      extractNode(n) = Value(<<>>)
               /\ "content" \in DOMAIN n => extractNode(n) = ChildrenText(n)
    /\ \A k \in 1..Len(mapped) :
           Unrecognised(adf.content[k]) =>
               mapped[k] = (IF "content" \in DOMAIN adf.content[k]
                            THEN ChildrenText(adf.content[k]).text ELSE <<>>)

\* C12 witness: a document of a childless node of unknown type and a node of
\* unknown type holding a paragraph and a text leaf was extracted to the text
\* of the two children.
C12_Witness ==
    /\ pc = "extracted"
    /\ IsObject(adf) /\ "content" \in DOMAIN adf
    /\ adf.content =
           <<[type |-> "rule"],
             [type |-> "panel",
              content |-> <<Para(<<Unmarked(<<"a">>)>>), Unmarked(<<"b">>)>>]>>
    /\ mapped = << <<>>, <<"a", "b">> >>
    /\ extracted = << <<"a", "b">> >>

\* a text leaf
IsLeaf(n) == HasType(n, "text") /\ "text" \in DOMAIN n

\* the texts of the text leaves under n, in order
RECURSIVE Leaves(_)
Leaves(n) ==
    IF IsLeaf(n) THEN n.text
    ELSE IF "content" \in DOMAIN n
    THEN Concat([k \in 1..Len(n.content) |-> Leaves(n.content[k])])
    ELSE <<>>

\* n is a tree of objects with array contents that holds no list
RECURSIVE ListFree(_)
ListFree(n) ==
    /\ IsObject(n)
    /\ "type" \in DOMAIN n
    /\ n.type \notin {"bulletList", "listItem"}
    /\ "contentNotArray" \notin DOMAIN n
    /\ "content" \in DOMAIN n => \A k \in 1..Len(n.content) : ListFree(n.content[k])

\* b is a top-level block as the claim describes them: a bulletList of list
\* items, or a block that holds no list
IsRendered(b) ==
    IF HasType(b, "bulletList")
    THEN /\ "content" \in DOMAIN b
         /\ \A k \in 1..Len(b.content) :
                /\ HasType(b.content[k], "listItem")
                /\ "content" \in DOMAIN b.content[k]
                /\ \A j \in 1..Len(b.content[k].content) :
                       ListFree(b.content[k].content[j])
    ELSE ListFree(b)

\* the text the claim gives the top-level block b
Rendering(b) ==
    IF HasType(b, "paragraph") \/ HasType(b, "heading") THEN Leaves(b) \o <<NL>>
    ELSE IF HasType(b, "bulletList")
    THEN Join([k \in 1..Len(b.content) |->
                  <<DASH, SP>> \o Stripped(Leaves(b.content[k]))]) \o <<NL>>
    ELSE Leaves(b)

\* the argument is a document whose top-level children are such blocks
RenderedDoc ==
    /\ IsObject(adf)
    /\ "content" \in DOMAIN adf
    /\ \A k \in 1..Len(adf.content) : IsRendered(adf.content[k])

\* C13: extractTextFromAdf renders a document as the concatenation, in
\* order, of its top-level blocks, trimmed at both ends, where a paragraph or
\* heading is its children's text plus one newline, a bulletList is one line
\* '- ' + trimmed item text per list item, joined by newline, plus one trailing
\* newline, any other block is its text unmodified, and a text leaf gives its
\* content, its marks discarded.
C13_Rendering ==
    /\ (RenderedDoc /\ pc \in {"extract", "extracted"}) =>
           mapped = [k \in 1..Len(mapped) |-> Rendering(adf.content[k])]
    /\ (RenderedDoc /\ Ended) =>
           /\ pc = "extracted"
           /\ extracted =
                  <<Stripped(Concat([k \in 1..Len(adf.content) |->
                                        Rendering(adf.content[k])]))>>

\* C13 witness: a paragraph of ' b' and a bold 'c ' followed by a list of the
\* items ' a ' and 'b' was extracted to 'bc \n- a\n- b'.
C13_Witness ==
    /\ pc = "extracted"
    /\ RenderedDoc
    /\ adf.content =
           <<Para(<<Unmarked(<<SP, "b">>),
                    Marked(<<"c", SP>>, [type |-> "strong"])>>),
             List(<<Item(<<Para(<<Unmarked(<<SP, "a", SP>>)>>)>>),
                    Item(<<Para(<<Unmarked(<<"b">>)>>)>>)>>)>>
    /\ extracted = <<<<"b", "c", SP, NL, DASH, SP, "a", NL, DASH, SP, "b">>>>

-----------------------------------------------------------------------------
(* Calls in sequence                                                       *)
(*                                                                         *)
(* Both functions are synchronous, so calls interleave only whole: a       *)
(* caller converts a markdown text, extracts the text of the document it   *)
(* got, and does both again on the same input.                             *)

MaxCalls == 3

\* the locals at entry were they module-level state: what the call before
\* left in them
Entry_Surviving(md) ==
    [lines |-> Split(md),
     content |-> <<>>,
     inCodeBlock |-> inCodeBlock,
     codeBlockContent |-> codeBlockContent,
     codeBlockLang |-> codeBlockLang,
     currentBulletList |-> currentBulletList]

\* the locals of markdownToAdf(md) at entry, declared inside the function
Entry(md) ==
    [lines |-> Split(md),
     content |-> <<>>,
     inCodeBlock |-> FALSE,
     codeBlockContent |-> <<>>,
     codeBlockLang |-> <<>>,
     currentBulletList |-> Null]

\* markdownToAdf(markdown) is called again after an extraction returned
CallMarkdownToAdf ==
    /\ pc = "extracted"
    /\ calls < MaxCalls
    /\ calls' = calls + 1
    /\ earlier' = Append(earlier, extracted)
    /\ pc' = "loop"
    /\ LET e == Entry(markdown)
       IN  /\ lines' = e.lines
           /\ content' = e.content
           /\ inCodeBlock' = e.inCodeBlock
           /\ codeBlockContent' = e.codeBlockContent
           /\ codeBlockLang' = e.codeBlockLang
           /\ currentBulletList' = e.currentBulletList
    /\ idx' = 1
    /\ ret' = Null
    /\ UNCHANGED <<markdown, inlineVars, adfVars, pullVars, toolVars>>

\* extractTextFromAdf is called on the document markdownToAdf returned
CallExtract ==
    /\ Done
    /\ calls < MaxCalls
    /\ calls' = calls + 1
    /\ earlier' = Append(earlier, ret)
    /\ pc' = "extract"
    /\ adf' = Doc
    /\ pos' = 1
    /\ mapped' = <<>>
    /\ extracted' = Null
    /\ UNCHANGED <<docVars, inlineVars, pullVars, toolVars>>

\* Lines that leave state behind (an open fence, a pending list) and lines
\* that are plain paragraphs.
CallLines ==
    { <<>>,
      <<SP, CR>>,
      <<"a">>,
      <<STAR, STAR, "b">>,
      <<DASH, SP>>,
      <<HASH, HASH, HASH, HASH, SP, "a">>,
      <<HASH, SP, "a">>,
      <<DASH, SP, "a">>,
      <<BT, BT, BT>> }

CallDocuments == {Join(ls) : ls \in SeqsUpTo(CallLines, MaxLines)}

\* the first call markdownToAdf(markdown)
InitCalls ==
    /\ pc = "loop"
    /\ markdown \in CallDocuments
    /\ lines = Split(markdown)
    /\ idx = 1
    /\ content = <<>>
    /\ inCodeBlock = FALSE
    /\ codeBlockContent = <<>>
    /\ codeBlockLang = <<>>
    /\ currentBulletList = Null
    /\ ret = Null
    /\ NoInline
    /\ NoExtract
    /\ NoCalls
    /\ NoPullAll
    /\ NoTools

\* On a document markdownToAdf returned the extractor takes neither early
\* return and does not throw (C14_RoundTrip holds it to that).
NextCalls ==
    \/ Next
    \/ CallExtract
    \/ ExtractBlock
    \/ ExtractReturn
    \/ CallMarkdownToAdf

SpecCalls == InitCalls /\ [][NextCalls]_vars

\* a line that is no heading, bullet or fence line and holds no complete
\* inline mark
PlainLine(l) ==
    /\ ~FenceLine(l)
    /\ ~BulletText(l)
    /\ \A n \in 1..3 : ~HeadingText(l, n)
    /\ \A k \in 1..Len(l) :
           LET r == SubSeq(l, k, Len(l))
           IN  /\ \A n \in 1..Len(r) : ~CodeAt(r, n) /\ ~BoldAt(r, n)
               /\ \A n, m \in 1..Len(r) : ~LinkAt(r, n, m)

PlainInput == \A k \in 1..Len(lines) : PlainLine(lines[k])

NotBlank(l) == ~BlankText(l)

\* C14: for an input made only of plain paragraph lines,
\* extractTextFromAdf(markdownToAdf(input)) equals the non-blank lines of the
\* input joined by single newlines and trimmed at both ends; the extraction
\* of a document markdownToAdf returned takes no early return and does not
\* throw.
C14_RoundTrip ==
    /\ pc = "extract" =>
           /\ adf = Doc
           /\ IsObject(adf)
           /\ "content" \in DOMAIN adf
           /\ pos <= Len(adf.content) => ~BlockText(adf.content[pos]).threw
    /\ (pc = "extracted" /\ PlainInput) =>
           extracted = <<Stripped(Join(SelectSeq(lines, NotBlank)))>>

\* C14 witness: the input '- \n \r\n**b' came back as '- \n**b'.
C14_Witness ==
    /\ pc = "extracted"
    /\ PlainInput
    /\ lines = << <<DASH, SP>>, <<SP, CR>>, <<STAR, STAR, "b">> >>
    /\ extracted = <<<<DASH, SP, NL, STAR, STAR, "b">>>>

\* C15: markdownToAdf and extractTextFromAdf are pure.  Every call of
\* markdownToAdf starts from fresh locals (no fence mode, code payload or
\* pending list survives the call before); a call gives what the earlier call
\* of the same function on the same argument gave; and no step of the
\* extractor changes the tree it was given.
C15_Pure ==
    /\ []((pc = "loop" /\ idx = 1) =>
              /\ lines = Split(markdown)
              /\ content = <<>>
              /\ ~inCodeBlock
              /\ codeBlockContent = <<>>
              /\ codeBlockLang = <<>>
              /\ currentBulletList = Null)
    /\ []((Done /\ calls >= 2) => ret = earlier[calls - 1])
    /\ []((pc = "extracted" /\ calls >= 3) => extracted = earlier[calls - 1])
    /\ [][ /\ pc' = "extract" => adf' = Doc /\ ret' = ret
           /\ pc = "extract" => adf' = adf
           /\ markdown' = markdown
       ]_vars

\* C15 witness: the second extraction returned, after two conversions of an
\* input that left a list in the document and a fence open with a payload.
C15_Witness ==
    /\ pc = "extracted"
    /\ calls = 3
    /\ inCodeBlock
    /\ codeBlockContent # <<>>
    /\ Len(Doc.content) = 1
    /\ IsList(Doc.content[1])
    /\ earlier = <<ret, extracted, ret>>

-----------------------------------------------------------------------------
(* pull-all                                                                *)
(*                                                                         *)
(* A RepoStatus object is a record; toPull, notOnMain and skipped hold the *)
(* positions in scanned of the objects the code puts in those arrays (the  *)
(* arrays share the objects).  A git command in flight is a step of its    *)
(* own: it ends when its subprocess does, in any order with the others.    *)

MaxRepos == 2

\* the names getRepoDirs returns, sorted
DirNames == <<"a", "b", "c", "d">>

GitPull == "pull"
FetchMain == "fetch origin main:main"
FetchMaster == "fetch origin master:master"

\* main and master count as main, and master does not
IsMain_OnlyMain(branch) == branch = <<"main">>

\* status.branch === 'main' || status.branch === 'master'
IsMain(branch) == branch = <<"main">> \/ branch = <<"master">>

\* scanRepo(name, root) for a subdirectory dir
scanRepo(name, dir) ==
    [name |-> name,
     isRepo |-> dir.isRepo,
     branch |-> IF dir.isRepo THEN dir.branch ELSE Null,
     result |-> IF dir.isRepo /\ dir.branch = Null THEN "failed" ELSE "skipped",
     error |-> IF dir.isRepo /\ dir.branch = Null
               THEN <<"Could not determine branch">> ELSE Null]

\* the scan made of the subdirectories even when the root is a repository
Scanned_Subdirs(r) == [k \in 1..Len(r.dirs) |-> scanRepo(DirNames[k], r.dirs[k])]

\* Phase 1: the root alone when it is a repository, else its subdirectories
Scanned(r) ==
    IF r.isRepo
    THEN <<[name |-> ".",
            isRepo |-> TRUE,
            branch |-> r.branch,
            result |-> "skipped",
            error |-> IF r.branch # Null THEN Null
                      ELSE <<"Could not determine branch">>]>>
    ELSE [k \in 1..Len(r.dirs) |-> scanRepo(DirNames[k], r.dirs[k])]

Scan ==
    /\ pc = "scan"
    /\ scanned' = Scanned(root)
    /\ running' = [k \in 1..Len(Scanned(root)) |-> "none"]
    /\ git' = [k \in 1..Len(Scanned(root)) |-> <<>>]
    /\ pc' = "classify"
    /\ UNCHANGED <<root, options, toPull, notOnMain, skipped, results,
                   fetchedResults, docVars, inlineVars, adfVars, callVars,
                   toolVars>>

\* the positions of scanned that are in S, in order
Positions(S) == SelectSeq([k \in 1..Len(scanned) |-> k], LAMBDA k : k \in S)

\* Determine which repos to pull
Classify ==
    /\ pc = "classify"
    /\ LET Skip(k) == ~scanned[k].isRepo
           Fetch(k) == /\ scanned[k].isRepo
                       /\ ~IsMain(scanned[k].branch) /\ ~options.all
           Pull(k) == /\ scanned[k].isRepo
                      /\ ~(~IsMain(scanned[k].branch) /\ ~options.all)
           All == 1..Len(scanned)
       IN  /\ skipped' = Positions({k \in All : Skip(k)})
           /\ notOnMain' = Positions({k \in All : Fetch(k)})
           /\ toPull' = Positions({k \in All : Pull(k)})
           /\ scanned' = [k \in 1..Len(scanned) |->
                             IF Fetch(k)
                             THEN [scanned[k] EXCEPT !.result = "not-main"]
                             ELSE scanned[k]]
    /\ pc' = "pull"
    /\ UNCHANGED <<root, options, running, git, results, fetchedResults,
                   docVars, inlineVars, adfVars, callVars, toolVars>>

\* the statuses at the positions ixs
Statuses(ixs) == [k \in 1..Len(ixs) |-> scanned[ixs[k]]]

\* --dry-run: copies marked 'skipped' and 'not-main', no git command
DryRun ==
    /\ pc = "pull"
    /\ options.dryRun
    /\ results' = <<[k \in 1..Len(toPull) |->
                        [scanned[toPull[k]] EXCEPT !.result = "skipped"]]>>
    /\ fetchedResults' =
           <<[k \in 1..Len(notOnMain) |->
                 [scanned[notOnMain[k]] EXCEPT !.result = "not-main"]]>>
    /\ pc' = "done"
    /\ UNCHANGED <<root, options, scanned, toPull, notOnMain, skipped, running,
                   git, docVars, inlineVars, adfVars, callVars, toolVars>>

\* a map that only calls back for the first element
Started_First(ixs) == IF ixs = <<>> THEN {} ELSE {ixs[1]}

\* arr.map(async (status) => ...): the callback runs for every element, each
\* up to its first await, before map returns
Started(ixs) == {ixs[k] : k \in 1..Len(ixs)}

\* the state of running and git after cmd was started for the positions in S
Start(S, cmd) ==
    /\ running' = [k \in 1..Len(running) |-> IF k \in S THEN cmd ELSE running[k]]
    /\ git' = [k \in 1..Len(git) |->
                  IF k \in S THEN Append(git[k], [cmd |-> cmd, exit |-> "running"])
                  ELSE git[k]]

\* the command of status i ended with exit e
End(i, e, next) ==
    LET ended == [git[i] EXCEPT ![Len(git[i])].exit = e]
    IN  /\ running' = [running EXCEPT ![i] = next]
        /\ git' = [git EXCEPT
                      ![i] = IF next = "none" THEN ended
                             ELSE Append(ended, [cmd |-> next, exit |-> "running"])]

\* status i was given a command and it has ended
Finished(i) == git[i] # <<>> /\ running[i] = "none"

\* Phase 2: toPull.map(async (status) => { await pullRepo(status, root) ... })
StartPulls ==
    /\ pc = "pull"
    /\ ~options.dryRun
    /\ Start(Started(toPull), GitPull)
    /\ pc' = "pulling"
    /\ UNCHANGED <<root, options, scanned, toPull, notOnMain, skipped, results,
                   fetchedResults, docVars, inlineVars, adfVars, callVars,
                   toolVars>>

\* how git pull can end
PullExits ==
    { [ok |-> TRUE, text |-> "Already up to date."],
      [ok |-> TRUE, text |-> "Fast-forward"],
      [ok |-> FALSE, text |-> "pull failed"] }

\* gitPull without its try/catch: the failure of the subprocess rejects
gitPull_NoCatch(exit) ==
    [rejected |-> ~exit.ok,
     success |-> TRUE,
     updated |-> exit.text # "Already up to date.",
     output |-> exit.text]

\* gitPull(dir), the subprocess having ended with exit
gitPull(exit) ==
    IF exit.ok
    THEN [rejected |-> FALSE,
          success |-> TRUE,
          updated |-> exit.text # "Already up to date.",
          output |-> exit.text]
    ELSE [rejected |-> FALSE, success |-> FALSE, updated |-> FALSE,
          output |-> exit.text]

\* the rest of pullRepo and of the map callback, for status i; a rejection
\* of the callback rejects Promise.all and with it the command
PullSettled(i) ==
    /\ pc = "pulling"
    /\ running[i] = GitPull
    /\ \E exit \in PullExits :
           LET r == gitPull(exit)
           IN  /\ End(i, IF exit.ok THEN "ok" ELSE "failed", "none")
               /\ IF r.rejected
                  THEN pc' = "rejected" /\ UNCHANGED scanned
                  ELSE /\ pc' = pc
                       /\ scanned' =
                              [scanned EXCEPT
                                  ![i].result = IF ~r.success THEN "failed"
                                                ELSE IF r.updated THEN "updated"
                                                ELSE "up-to-date",
                                  ![i].error = IF r.success THEN @
                                               ELSE <<r.output>>]
    /\ UNCHANGED <<root, options, toPull, notOnMain, skipped, results,
                   fetchedResults, docVars, inlineVars, adfVars, callVars,
                   toolVars>>

\* results = await Promise.all(pullPromises)
PullsResolved ==
    /\ pc = "pulling"
    /\ \A k \in 1..Len(toPull) : Finished(toPull[k])
    /\ results' = <<Statuses(toPull)>>
    /\ pc' = "fetch"
    /\ UNCHANGED <<root, options, scanned, toPull, notOnMain, skipped, running,
                   git, fetchedResults, docVars, inlineVars, adfVars, callVars,
                   toolVars>>

\* Phase 3: notOnMain.map(async (status) => { await fetchMainForRepo ... })
StartFetches ==
    /\ pc = "fetch"
    /\ Start(Started(notOnMain), FetchMain)
    /\ pc' = "fetching"
    /\ UNCHANGED <<root, options, scanned, toPull, notOnMain, skipped, results,
                   fetchedResults, docVars, inlineVars, adfVars, callVars,
                   toolVars>>

\* the fallback tried whether or not the fetch of main failed
FetchFallback_Always(ok) == FetchMaster

\* gitFetchMain: try 'main' first, fall back to 'master'
FetchFallback(ok) == IF ok THEN "none" ELSE FetchMaster

\* the fetch of main of status i ends
FetchMainSettled(i) ==
    /\ pc = "fetching"
    /\ running[i] = FetchMain
    /\ \E ok \in BOOLEAN :
           /\ End(i, IF ok THEN "ok" ELSE "failed", FetchFallback(ok))
           /\ scanned' = IF FetchFallback(ok) = "none"
                         THEN [scanned EXCEPT ![i].result = "fetched"]
                         ELSE scanned
    /\ UNCHANGED <<pc, root, options, toPull, notOnMain, skipped, results,
                   fetchedResults, docVars, inlineVars, adfVars, callVars,
                   toolVars>>

\* the fetch of master of status i ends, and with it fetchMainForRepo
FetchMasterSettled(i) ==
    /\ pc = "fetching"
    /\ running[i] = FetchMaster
    /\ \E ok \in BOOLEAN :
           /\ End(i, IF ok THEN "ok" ELSE "failed", "none")
           /\ scanned' = IF ok
                         THEN [scanned EXCEPT ![i].result = "fetched"]
                         ELSE [scanned EXCEPT ![i].result = "failed",
                                              ![i].error = <<"fetch failed">>]
    /\ UNCHANGED <<pc, root, options, toPull, notOnMain, skipped, results,
                   fetchedResults, docVars, inlineVars, adfVars, callVars,
                   toolVars>>

\* fetchedResults = await Promise.all(fetchPromises)
FetchesResolved ==
    /\ pc = "fetching"
    /\ \A k \in 1..Len(notOnMain) : Finished(notOnMain[k])
    /\ fetchedResults' = <<Statuses(notOnMain)>>
    /\ pc' = "done"
    /\ UNCHANGED <<root, options, scanned, toPull, notOnMain, skipped, running,
                   git, results, docVars, inlineVars, adfVars, callVars,
                   toolVars>>

\* what a directory can be: no repository, or one on a branch (none when
\* the branch cannot be determined)
Dirs ==
    {[isRepo |-> FALSE, branch |-> Null]}
    \cup {[isRepo |-> TRUE, branch |-> b] :
              b \in {Null, <<"main">>, <<"master">>, <<"feature">>}}

\* the target directory: itself of one of these kinds, with at most MaxRepos
\* subdirectories
Roots ==
    {[isRepo |-> d.isRepo, branch |-> d.branch, dirs |-> ds] :
         d \in Dirs, ds \in {<<>>} \cup SeqsUpTo(Dirs, MaxRepos)}

\* pull-all [directory] [--dry-run] [--all]
InitPullAll ==
    /\ pc = "scan"
    /\ root \in Roots
    /\ options \in [dryRun : BOOLEAN, all : BOOLEAN]
    /\ scanned = <<>>
    /\ toPull = <<>>
    /\ notOnMain = <<>>
    /\ skipped = <<>>
    /\ running = <<>>
    /\ git = <<>>
    /\ results = Null
    /\ fetchedResults = Null
    /\ NoDocument
    /\ NoInline
    /\ NoExtract
    /\ NoCalls
    /\ NoTools

NextPullAll ==
    \/ Scan
    \/ Classify
    \/ DryRun
    \/ StartPulls
    \/ \E i \in 1..Len(scanned) : PullSettled(i)
    \/ PullsResolved
    \/ StartFetches
    \/ \E i \in 1..Len(scanned) : FetchMainSettled(i)
    \/ \E i \in 1..Len(scanned) : FetchMasterSettled(i)
    \/ FetchesResolved

SpecPullAll == InitPullAll /\ [][NextPullAll]_vars

-----------------------------------------------------------------------------
(* Claims about pull-all                                                   *)

\* the git commands started for status i, in order
Cmds(i) == [k \in 1..Len(git[i]) |-> git[i][k].cmd]

\* how the last git command of status i ended
LastExit(i) == git[i][Len(git[i])].exit

\* the positions the pull phase and the fetch phase work on
Pulled == {toPull[k] : k \in 1..Len(toPull)}
Fetched == {notOnMain[k] : k \in 1..Len(notOnMain)}

\* C16: a failing git pull or fetch for one repository is recorded as result
\* 'failed' with its error on that repository only.  Under any interleaving
\* the command is never rejected; a repository whose git command is in flight
\* can always complete; the step that ends a git command changes the status
\* of its own repository and of no other; a repository ends as 'failed', with
\* an error, exactly when its last git command failed; and the command ends
\* with the statuses of all repositories it worked on.
C16_FailureIsolated ==
    /\ [](pc # "rejected")
    /\ [](\A i \in 1..Len(running) :
              running[i] # "none" =>
                  ENABLED (\/ PullSettled(i)
                           \/ FetchMainSettled(i)
                           \/ FetchMasterSettled(i)))
    /\ [](\A i \in 1..Len(scanned) :
              Finished(i) =>
                  /\ scanned[i].result = "failed" <=> LastExit(i) = "failed"
                  /\ scanned[i].result = "failed" => scanned[i].error # Null
                  /\ scanned[i].result \in {"updated", "up-to-date", "fetched", "failed"})
    /\ [](pc = "done" /\ ~options.dryRun =>
              /\ results = <<Statuses(toPull)>>
              /\ fetchedResults = <<Statuses(notOnMain)>>
              /\ \A i \in Pulled \cup Fetched : Finished(i))
    /\ [][ (pc = "pulling" \/ pc = "fetching") =>
             \A i \in 1..Len(scanned) :
                 scanned'[i] # scanned[i] =>
                     /\ running[i] # "none"
                     /\ running'[i] # running[i]
                     /\ \A j \in 1..Len(scanned) :
                            j # i => /\ scanned'[j] = scanned[j]
                                     /\ running'[j] = running[j]
                                     /\ git'[j] = git[j]
       ]_vars

\* C16 witness: of two repositories pulled together the first failed and the
\* second was updated.
C16_Witness ==
    /\ pc = "done"
    /\ Len(toPull) = 2
    /\ results[1][1].result = "failed"
    /\ results[1][1].error = <<"pull failed">>
    /\ results[1][2].result = "updated"
    /\ results[1][2].error = Null

\* C17: without --dry-run, pull-all runs git pull on every repository whose
\* current branch is main or master, and for a repository on any other branch
\* runs git fetch origin main:main (then master:master when that failed)
\* without pulling; with --all every repository is pulled whatever its branch
\* and none goes to the fetch phase.
C17_BranchRule ==
    ~options.dryRun =>
        /\ \A i \in 1..Len(git) :
               IF ~scanned[i].isRepo THEN git[i] = <<>>
               ELSE IF options.all \/ scanned[i].branch \in {<<"main">>, <<"master">>}
               THEN /\ Cmds(i) \in {<<>>, <<GitPull>>}
                    /\ pc = "done" => Cmds(i) = <<GitPull>>
               ELSE /\ Cmds(i) \in {<<>>, <<FetchMain>>, <<FetchMain, FetchMaster>>}
                    /\ pc = "done" => Cmds(i) # <<>>
        /\ (options.all /\ pc \notin {"scan", "classify"}) =>
               /\ notOnMain = <<>>
               /\ Pulled = {i \in 1..Len(scanned) : scanned[i].isRepo}

\* C17 witness: without flags, of a repository on master and one on a
\* feature branch the first was pulled and the second had main fetched.
C17_Witness ==
    /\ pc = "done"
    /\ ~options.dryRun /\ ~options.all
    /\ Len(scanned) = 2
    /\ scanned[1].branch = <<"master">> /\ Cmds(1) = <<GitPull>>
    /\ scanned[2].branch = <<"feature">> /\ Cmds(2) = <<FetchMain>>
    /\ scanned[2].result = "fetched"

C20_NoRetry ==
    \A i \in 1..Len(git) :
        /\ Cmds(i) \in {<<>>, <<GitPull>>, <<FetchMain>>, <<FetchMain, FetchMaster>>}
        /\ Len(git[i]) = 2 => git[i][1].exit = "failed"
        /\ \A k \in 1..Len(git[i]) :
               (git[i][k].exit = "failed" /\ git[i][k].cmd # FetchMain) =>
                   /\ k = Len(git[i])
                   /\ running[i] = "none"
                   /\ scanned[i].result = "failed"
                   /\ scanned[i].error # Null
        /\ \A k \in 1..Len(git[i]) :
               (git[i][k].exit = "failed" /\ git[i][k].cmd = FetchMain) =>
                   Len(git[i]) = 2

\* C20 witness: for a repository on a feature branch the fetch of main and
\* then the fetch of master failed, each run once, and the repository is
\* 'failed' with the error.
C20_Witness ==
    /\ pc = "done"
    /\ Len(git) >= 1
    /\ Cmds(1) = <<FetchMain, FetchMaster>>
    /\ git[1][1].exit = "failed"
    /\ git[1][2].exit = "failed"
    /\ scanned[1].result = "failed"
    /\ scanned[1].error = <<"fetch failed">>

-----------------------------------------------------------------------------
(* The jira create command and createIssue                                 *)
(*                                                                         *)
(* The command reads its description, looks the assignee up, calls         *)
(* createIssue and exits.  createIssue sends the create request and, when  *)
(* the response carries a key, reads the new issue back with getIssue.     *)
(* The tracker is the remote state: the ids of the issues that exist.      *)
(* Only this client changes it.  A rejected create request is one the      *)
(* tracker refused, so it creates nothing.  Every remote call resolves or  *)
(* rejects as the remote decides.  What is printed is recorded as one      *)
(* tagged line per call of the logger or the spinner.                      *)

\* commands run in a row against the same tracker
MaxRuns == 2

\* the flags of jira create that the action branches on (set or not set)
CreateOptions ==
    [stdin : BOOLEAN, description : BOOLEAN, descriptionText : BOOLEAN,
     assignee : BOOLEAN, json : BOOLEAN]

\* s?.method(msg) and the log calls guarded by !options.json
Spin(out, json, msgs) == IF json THEN out ELSE out \o msgs

\* one remote call of the client and whether it resolved
Call(name, ok) == [call |-> name, ok |-> ok]

\* the IssueInfo getIssue builds from what it read
IssueInfo(key) == [id |-> key, key |-> key]

\* getIssue with its catch removed in favour of the key it was given
getIssue_FromKey(key, ok) == <<IssueInfo(key)>>

\* getIssue(client, key): the issue read back, or null when the read fails
getIssue(key, ok) == IF ok THEN <<IssueInfo(key)>> ELSE Null

\* the id the tracker gives the next issue
NewId == Cardinality(tracker) + 1

\* title, then the description: stdin before the file before the text
CreateDescribe ==
    /\ pc = "describe"
    /\ LET o == createOptions[1]
           out == Spin(output, o.json, <<"title: Jira - Create Issue">>)
       IN  IF o.stdin
           THEN /\ description' = <<"stdin">>
                /\ output' = out
                /\ pc' = "lookup"
                /\ UNCHANGED exitCode
           ELSE IF o.description
           THEN \E exists \in BOOLEAN :
                    IF exists
                    THEN /\ description' = <<"file">>
                         /\ output' = out
                         /\ pc' = "lookup"
                         /\ UNCHANGED exitCode
                    ELSE /\ output' = Append(out, "error: File not found")
                         /\ exitCode' = <<1>>
                         /\ pc' = "exit"
                         /\ UNCHANGED description
           ELSE /\ description' = IF o.descriptionText THEN <<"text">> ELSE Null
                /\ output' = out
                /\ pc' = "lookup"
                /\ UNCHANGED exitCode
    /\ UNCHANGED <<tracker, runs, createOptions, assigneeAccountId, remote,
                   response, issue, fileVars, docVars, inlineVars, adfVars,
                   callVars, pullVars>>

\* findUser when --assignee is given, then the spinner of the create request
CreateLookup ==
    /\ pc = "lookup"
    /\ LET o == createOptions[1]
       IN  IF o.assignee
           THEN \E r \in {"found", "none", "rejected"} :
                    /\ remote' = Append(remote, Call("findUsers", r # "rejected"))
                    /\ assigneeAccountId' =
                           IF r = "found" THEN <<"accountId">> ELSE Null
                    /\ output' =
                           Spin(output, o.json,
                                <<"start: Looking up user",
                                  IF r = "found" THEN "succeed: Found user"
                                  ELSE "warn: User not found",
                                  "start: Creating issue...">>)
           ELSE /\ output' = Spin(output, o.json, <<"start: Creating issue...">>)
                /\ UNCHANGED <<remote, assigneeAccountId>>
    /\ pc' = "createIssue"
    /\ UNCHANGED <<tracker, runs, createOptions, description, response, issue,
                   exitCode, fileVars, docVars, inlineVars, adfVars, callVars,
                   pullVars>>

\* createIssue up to the answer of the create request
CreateIssueCall ==
    /\ pc = "createIssue"
    /\ \E r \in {"key", "nokey", "rejected"} :
           /\ remote' = Append(remote, Call("createIssue", r # "rejected"))
           /\ tracker' = IF r = "rejected" THEN tracker ELSE tracker \cup {NewId}
           /\ response' =
                  IF r = "key" THEN <<[key |-> <<NewId>>]>>
                  ELSE IF r = "nokey" THEN <<[key |-> Null]>>
                  ELSE Null
           /\ output' =
                  IF r = "rejected"
                  THEN Append(output, "error: Failed to create issue: message")
                  ELSE output
           /\ pc' = IF r = "key" THEN "getIssue" ELSE "report"
    /\ issue' = Null
    /\ UNCHANGED <<runs, createOptions, description, assigneeAccountId,
                   exitCode, fileVars, docVars, inlineVars, adfVars, callVars,
                   pullVars>>

\* return getIssue(client, response.key)
GetIssueCall ==
    /\ pc = "getIssue"
    /\ \E ok \in BOOLEAN :
           /\ remote' = Append(remote, Call("getIssue", ok))
           /\ issue' = getIssue(response[1].key[1], ok)
    /\ pc' = "report"
    /\ UNCHANGED <<tracker, runs, createOptions, description, assigneeAccountId,
                   response, exitCode, output, fileVars, docVars, inlineVars,
                   adfVars, callVars, pullVars>>

\* the command after createIssue returned: exit 1 on null, else the report
CreateReport ==
    /\ pc = "report"
    /\ LET o == createOptions[1]
       IN  IF issue = Null
           THEN /\ output' = Spin(output, o.json, <<"fail: Failed to create issue">>)
                /\ exitCode' = <<1>>
           ELSE /\ output' =
                       IF o.json THEN Append(output, "json: issue")
                       ELSE output \o <<"succeed: Created", "box: Issue Created",
                                        "success: URL">>
                /\ exitCode' = <<0>>
    /\ pc' = "exit"
    /\ UNCHANGED <<tracker, runs, createOptions, description, assigneeAccountId,
                   remote, response, issue, fileVars, docVars, inlineVars,
                   adfVars, callVars, pullVars>>

\* the next command is run against the tracker the last one left
CreateAgain ==
    /\ pc = "exit"
    /\ runs + 1 < MaxRuns
    /\ runs' = runs + 1
    /\ createOptions' \in {<<o>> : o \in CreateOptions}
    /\ description' = Null
    /\ assigneeAccountId' = Null
    /\ remote' = <<>>
    /\ response' = Null
    /\ issue' = Null
    /\ exitCode' = Null
    /\ output' = <<>>
    /\ pc' = "describe"
    /\ UNCHANGED <<tracker, fileVars, docVars, inlineVars, adfVars, callVars,
                   pullVars>>

\* jira create, on an empty tracker
InitCreate ==
    /\ pc = "describe"
    /\ tracker = {}
    /\ runs = 0
    /\ createOptions \in {<<o>> : o \in CreateOptions}
    /\ description = Null
    /\ assigneeAccountId = Null
    /\ remote = <<>>
    /\ response = Null
    /\ issue = Null
    /\ exitCode = Null
    /\ output = <<>>
    /\ NoSanitize
    /\ NoDocument
    /\ NoInline
    /\ NoExtract
    /\ NoCalls
    /\ NoPullAll

NextCreate ==
    \/ CreateDescribe
    \/ CreateLookup
    \/ CreateIssueCall
    \/ GetIssueCall
    \/ CreateReport
    \/ CreateAgain

SpecCreate == InitCreate /\ [][NextCreate]_vars

\* the remote call named name was made and resolved (ok) or rejected
Made(name, ok) == \E k \in DOMAIN remote : remote[k] = Call(name, ok)

\* the create request was answered with a key and the read of it failed
CreatedUnread ==
    /\ Made("createIssue", TRUE)
    /\ response # Null
    /\ response[1].key # Null
    /\ Made("getIssue", FALSE)

\* C21: when the create request succeeds with a key and the getIssue read
\* that follows fails, createIssue returns null and the command exits with
\* code 1 (printing "Failed to create issue", or nothing under --json),
\* although the issue with that key exists on the tracker: a null result
\* does not mean that no issue was created.
C21_NullAfterCreate ==
    (pc = "exit" /\ CreatedUnread) =>
        /\ issue = Null
        /\ exitCode = <<1>>
        /\ response[1].key[1] \in tracker
        /\ IF createOptions[1].json
           THEN output = <<>>
           ELSE output[Len(output)] = "fail: Failed to create issue"

\* a command that exited with code 1 on a null result after its issue was
\* created on a tracker that was empty before
C21_Witness ==
    /\ pc = "exit"
    /\ runs = 0
    /\ CreatedUnread
    /\ issue = Null
    /\ exitCode = <<1>>
    /\ tracker = {1}

-----------------------------------------------------------------------------
(* sanitizeFilename                                                        *)
(*                                                                         *)
(* title.toLowerCase(), every run of characters outside a-z and 0-9        *)
(* replaced by one hyphen, one leading and one trailing hyphen removed,    *)
(* and the first 100 characters of that kept.                              *)

\* the second argument of substring
FilenameLimit == 100

LowerCase ==
    <<"a", "b", "c", "d", "e", "f", "g", "h", "i", "j", "k", "l", "m",
      "n", "o", "p", "q", "r", "s", "t", "u", "v", "w", "x", "y", "z">>
UpperCase ==
    <<"A", "B", "C", "D", "E", "F", "G", "H", "I", "J", "K", "L", "M",
      "N", "O", "P", "Q", "R", "S", "T", "U", "V", "W", "X", "Y", "Z">>
Digits == {"0", "1", "2", "3", "4", "5", "6", "7", "8", "9"}

\* the class [a-z0-9]
IsAlnum(c) == c \in Digits \/ \E k \in 1..26 : LowerCase[k] = c

\* String.prototype.toLowerCase, on the characters of the model
toLowerCase(s) ==
    [i \in 1..Len(s) |->
        IF \E k \in 1..26 : UpperCase[k] = s[i]
        THEN LowerCase[CHOOSE k \in 1..26 : UpperCase[k] = s[i]]
        ELSE s[i]]

\* .replace(/[^a-z0-9]/g, '-'): every character outside the class replaced
Hyphenate_Each(s) == [i \in 1..Len(s) |-> IF IsAlnum(s[i]) THEN s[i] ELSE "-"]

\* .replace(/[^a-z0-9]+/g, '-'): a maximal run outside the class becomes one
\* hyphen, so only the first character of a run is kept, as a hyphen
Hyphenate(s) ==
    LET kept == SelectSeq([i \in 1..Len(s) |-> i],
                          LAMBDA i : IsAlnum(s[i]) \/ i = 1 \/ IsAlnum(s[i - 1]))
    IN  [k \in 1..Len(kept) |-> IF IsAlnum(s[kept[k]]) THEN s[kept[k]] ELSE "-"]

\* .replace(/^-|-$/g, ''): a hyphen at the start, then one at the end
StripEnds(s) ==
    LET a == IF s # <<>> /\ s[1] = "-" THEN Tail(s) ELSE s
    IN  IF a # <<>> /\ a[Len(a)] = "-" THEN SubSeq(a, 1, Len(a) - 1) ELSE a

\* .substring(0, n)
Substring(s, n) == SubSeq(s, 1, IF Len(s) < n THEN Len(s) ELSE n)

sanitizeFilename(t) ==
    Substring(StripEnds(Hyphenate(toLowerCase(t))), FilenameLimit)

\* the function is called on title
Sanitize ==
    /\ pc = "sanitize"
    /\ filename' = <<sanitizeFilename(title)>>
    /\ pc' = "sanitized"
    /\ UNCHANGED <<title, passes, jiraVars, docVars, inlineVars, adfVars,
                   callVars, pullVars>>

\* characters at the two ends of a title, and passes over a result
MaxEdge == 2
MaxPasses == 1

\* the function is called on what it returned
SanitizeAgain ==
    /\ pc = "sanitized"
    /\ passes < MaxPasses
    /\ passes' = passes + 1
    /\ title' = filename[1]
    /\ filename' = Null
    /\ pc' = "sanitize"
    /\ UNCHANGED <<jiraVars, docVars, inlineVars, adfVars, callVars, pullVars>>

\* an upper-case letter, a digit, a hyphen and a character outside the class
EdgeChars == {"B", "7", "-", " "}
Edges == {<<>>} \cup SeqsUpTo(EdgeChars, MaxEdge)

\* n lower-case letters
Fill(n) == [i \in 1..n |-> "a"]

\* short titles, and titles whose sanitized form is cut near its end
FillLengths == {0} \cup ((FilenameLimit - 2)..FilenameLimit)
Titles ==
    {pre \o Fill(n) \o suf : pre \in Edges, suf \in Edges, n \in FillLengths}

InitSanitize ==
    /\ pc = "sanitize"
    /\ title \in Titles
    /\ filename = Null
    /\ passes = 0
    /\ NoCreate
    /\ NoDocument
    /\ NoInline
    /\ NoExtract
    /\ NoCalls
    /\ NoPullAll

NextSanitize == Sanitize \/ SanitizeAgain

SpecSanitize == InitSanitize /\ [][NextSanitize]_vars

EndsWithHyphen(s) == s # <<>> /\ s[Len(s)] = "-"

\* C22: for every title, sanitizeFilename returns at most 100 characters,
\* each of them a-z, 0-9 or a hyphen, with no two hyphens next to each other
\* and no hyphen first.  The result ends with a hyphen only when it was cut
\* at 100 characters, and those are the results that sanitizeFilename
\* changes when applied to them: every other result is left as it is.
C22_Sanitized ==
    pc = "sanitized" =>
        LET f == filename[1]
        IN  /\ Len(f) <= FilenameLimit
            /\ \A i \in 1..Len(f) : IsAlnum(f[i]) \/ f[i] = "-"
            /\ \A i \in 2..Len(f) : ~(f[i - 1] = "-" /\ f[i] = "-")
            /\ (f # <<>> => f[1] # "-")
            /\ (EndsWithHyphen(f) => Len(f) = FilenameLimit)
            /\ (sanitizeFilename(f) # f) <=> EndsWithHyphen(f)

\* a result of 100 characters ending with a hyphen was sanitized again and
\* came back without the hyphen
C22_Witness ==
    /\ pc = "sanitized"
    /\ passes = 1
    /\ Len(title) = FilenameLimit
    /\ EndsWithHyphen(title)
    /\ filename[1] = SubSeq(title, 1, FilenameLimit - 1)

====
